---------------------------- MODULE Spec2Model ----------------------------
(***************************************************************************)
(* Verification model of the OAuth / session / rate-limit core of          *)
(* youtube-music-mcp-server.                                               *)
(*                                                                         *)
(*   SpecRL  : ytmusic/rate_limiter.py   (RateLimiter)                     *)
(*   SpecOA  : auth/oauth_manager.py     (OAuthManager)                    *)
(*   SpecSM  : auth/session_manager.py   (SessionManager over a            *)
(*                     TokenStorage backend), models/auth.py               *)
(*   SpecPX  : auth/oauth_manager.py     (code exchange, revocation)       *)
(*   SpecEN  : security/encryption.py    (EncryptionManager)               *)
(*   SpecTS  : auth/token_storage.py     (memory and Redis storage)        *)
(*   SpecMW  : security/middleware.py    (bearer authentication)           *)
(*   SpecTK  : models/auth.py            (token expiry)                    *)
(*   SpecSW  : auth/session_manager.py   (the expiry sweep; FairSW         *)
(*                     adds weak fairness of the sweep task)               *)
(*   SpecRB  : ytmusic/rate_limiter.py   (RateLimiter from a burst)        *)
(*   SpecYC  : ytmusic/client.py         (YTMusicClient, wait_if_needed)   *)
(***************************************************************************)
EXTENDS Integers, Sequences, FiniteSets, TLC

None == "None"
\* an absent (None) integer field
NoInt == -1

Min2(a, b) == IF a < b THEN a ELSE b
Max2(a, b) == IF a > b THEN a ELSE b

RECURSIVE Pow2(_)
Pow2(n) == IF n = 0 THEN 1 ELSE 2 * Pow2(n - 1)

(* python dict helpers: a dict is a function whose DOMAIN is its key set *)
EmptyDict == [x \in {} |-> 0]
DictPut(d, k, v) == [x \in (DOMAIN d) \cup {k} |-> IF x = k THEN v ELSE d[x]]
DictDel(d, k) == [x \in (DOMAIN d) \ {k} |-> d[x]]

(***************************************************************************)
(*                    RateLimiter  (ytmusic/rate_limiter.py)               *)
(***************************************************************************)

RLSessions == {"s1", "s2"}
\* concurrent callers (asyncio tasks); they are anonymous, so a new call is
\* always given to the lowest-numbered caller that is not inside a call
RLTasks == {1, 2}

\* configurations the limiter is constructed with (constructor arguments)
BurstLimits == {1, 2}
MinuteLimits == {2}
HourLimits == {3}

\* the instants at which calls are made: the clock jumps from one to any
\* later one, so that the distances 10/11, 60/61 and 3600/3601 seconds
\* between two calls (the window boundaries) are all reached
RLInstants == {0, 10, 11, 60, 3600, 3601}
\* the largest violation counter explored: rl_maxv, which is MaxViolations
\* where the windows are studied and MaxBackoffs where the backoff is
MaxViolations == 1
MaxBackoffs == 8

BurstWindow == 10
MinuteWindow == 60
HourWindow == 3600
CleanupInterval == 300
MaxBackoff == 60
BackoffExpCap == 6

VARIABLES
    rl_now,             \* time.time()
    burst_limit, requests_per_minute, requests_per_hour,
    burst_requests,     \* self._burst_requests   : dict session -> deque
    minute_requests,    \* self._minute_requests
    hour_requests,      \* self._hour_requests
    violation_counts,   \* self._violation_counts : dict session -> int
    last_cleanup,       \* self._last_cleanup
    rl_task,            \* per caller: position in check_rate_limit / wait_if_needed
    rl_last,            \* history: the outcome of the latest call, until the clock moves
    admitted            \* history: per session, the timestamps of the calls that returned True

VARIABLES
    rl_maxv             \* bound of the exploration: no violation counter goes beyond it

rb_vars == <<rl_maxv>>

rl_vars == <<rl_now, burst_limit, requests_per_minute, requests_per_hour,
             burst_requests, minute_requests, hour_requests, violation_counts,
             last_cleanup, rl_task, rl_last, admitted>>

\* defaultdict(deque) / defaultdict(int) read without insertion
DequeOf(d, s) == IF s \in DOMAIN d THEN d[s] ELSE <<>>
CountOf(d, s) == IF s \in DOMAIN d THEN d[s] ELSE 0

\* while requests and requests[0] < cutoff_time: requests.popleft()
RECURSIVE PopOld(_, _)
PopOldLE(q, cutoff) == SelectSeq(q, LAMBDA x : x > cutoff)
PopOld(q, cutoff) ==
    IF q # <<>> /\ Head(q) < cutoff THEN PopOld(Tail(q), cutoff) ELSE q

\* the backoff without the cap of 60 s
BackoffTimeUncapped(v) == Pow2(Min2(v, BackoffExpCap))

\* min(60, 2 ** min(violation_count, 6))
BackoffTime(v) == Min2(MaxBackoff, Pow2(Min2(v, BackoffExpCap)))

\* _cleanup_old_entries leaving the violation counters alone
CleanupKeepViolations(b, m, h, v, ct) ==
    LET all == (DOMAIN b) \cup (DOMAIN m) \cup (DOMAIN h)
        pb(s) == PopOld(DequeOf(b, s), ct - BurstWindow)
        pm(s) == PopOld(DequeOf(m, s), ct - MinuteWindow)
        ph(s) == PopOld(DequeOf(h, s), ct - HourWindow)
        dead == {s \in all : pb(s) = <<>> /\ pm(s) = <<>> /\ ph(s) = <<>>}
    IN  [b |-> [s \in all \ dead |-> pb(s)],
         m |-> [s \in all \ dead |-> pm(s)],
         h |-> [s \in all \ dead |-> ph(s)],
         v |-> v]

\* _cleanup_old_entries pruning the deques but removing no session
CleanupKeepDead(b, m, h, v, ct) ==
    LET all == (DOMAIN b) \cup (DOMAIN m) \cup (DOMAIN h) IN
    [b |-> [s \in all |-> PopOld(DequeOf(b, s), ct - BurstWindow)],
     m |-> [s \in all |-> PopOld(DequeOf(m, s), ct - MinuteWindow)],
     h |-> [s \in all |-> PopOld(DequeOf(h, s), ct - HourWindow)],
     v |-> v]

\* _cleanup_old_entries: the four dicts after the pass at time ct
CleanupOldEntries(b, m, h, v, ct) ==
    LET all == (DOMAIN b) \cup (DOMAIN m) \cup (DOMAIN h)
        pb(s) == PopOld(DequeOf(b, s), ct - BurstWindow)
        pm(s) == PopOld(DequeOf(m, s), ct - MinuteWindow)
        ph(s) == PopOld(DequeOf(h, s), ct - HourWindow)
        dead == {s \in all : pb(s) = <<>> /\ pm(s) = <<>> /\ ph(s) = <<>>}
    IN  [b |-> [s \in all \ dead |-> pb(s)],
         m |-> [s \in all \ dead |-> pm(s)],
         h |-> [s \in all \ dead |-> ph(s)],
         v |-> [s \in (DOMAIN v) \ dead |-> v[s]]]

\* history helper: number of timestamps of q in [lo, hi]
CountIn(q, lo, hi) == Cardinality({i \in 1..Len(q) : q[i] >= lo /\ q[i] <= hi})

IdleTask == [pc |-> "idle", sess |-> None, call_time |-> 0, wake |-> 0]

\* history: the last decision check_rate_limit took at the current instant
NoCall == [sess |-> None, outcome |-> "none", backoff |-> 0, slept |-> 0,
           preB |-> 0, preM |-> 0, preH |-> 0]

RLInit ==
    /\ rl_now = 0
    /\ burst_limit \in BurstLimits
    /\ requests_per_minute \in MinuteLimits
    /\ requests_per_hour \in HourLimits
    /\ burst_requests = EmptyDict
    /\ minute_requests = EmptyDict
    /\ hour_requests = EmptyDict
    /\ violation_counts = EmptyDict
    /\ last_cleanup = 0
    /\ rl_task = [t \in RLTasks |-> IdleTask]
    /\ rl_last = NoCall
    /\ admitted = [s \in RLSessions |-> <<>>]

\* the limiter in the middle of a burst of one session: burst_limit calls
\* were admitted at this instant and k more callers were rejected, which left
\* the violation counter at k; those callers are asleep in their backoff and
\* only the callers that arrive from now on are followed
InitViolations == 0..6
BurstSession == "s1"
RBInit ==
    /\ rl_now = 0
    /\ burst_limit \in BurstLimits
    /\ requests_per_minute \in MinuteLimits
    /\ requests_per_hour \in HourLimits
    /\ burst_requests = DictPut(EmptyDict, BurstSession, [i \in 1..burst_limit |-> 0])
    /\ minute_requests = DictPut(EmptyDict, BurstSession, [i \in 1..burst_limit |-> 0])
    /\ hour_requests = DictPut(EmptyDict, BurstSession, [i \in 1..burst_limit |-> 0])
    /\ violation_counts \in {IF k = 0 THEN EmptyDict ELSE DictPut(EmptyDict, BurstSession, k) :
                                k \in InitViolations}
    /\ last_cleanup = 0
    /\ rl_task = [t \in RLTasks |-> IdleTask]
    /\ rl_last = NoCall
    /\ admitted = [s \in RLSessions |->
                     IF s = BurstSession THEN [i \in 1..burst_limit |-> 0] ELSE <<>>]
    /\ rl_maxv = MaxBackoffs

\* the state of the four dicts a check_rate_limit call starts from: after
\* the periodic cleanup of lines 73-76 when it is due
AfterPeriodicCleanup(ct) ==
    IF ct - last_cleanup > CleanupInterval
    THEN CleanupOldEntries(burst_requests, minute_requests, hour_requests,
                           violation_counts, ct)
    ELSE [b |-> burst_requests, m |-> minute_requests, h |-> hour_requests,
          v |-> violation_counts]

\* _check_burst_limit / _check_minute_limit / _check_hour_limit: the pruned
\* deque (stored back under the key, which the defaultdict creates)
CheckBurstLimitNoPrune(d, s, ct) == DequeOf(d, s)
CheckBurstLimit(d, s, ct) == PopOld(DequeOf(d, s), ct - BurstWindow)
CheckMinuteLimitBurstWindow(d, s, ct) == PopOld(DequeOf(d, s), ct - BurstWindow)
CheckMinuteLimit(d, s, ct) == PopOld(DequeOf(d, s), ct - MinuteWindow)
CheckHourLimit(d, s, ct) == PopOld(DequeOf(d, s), ct - HourWindow)

\* history record of a decision: what the history of admitted calls says at
\* call time, and what the call did
CallRecord(s, ct, outcome, backoff) ==
    [sess |-> s, outcome |-> outcome, backoff |-> backoff, slept |-> 0,
     preB |-> CountIn(admitted[s], ct - BurstWindow, ct),
     preM |-> CountIn(admitted[s], ct - MinuteWindow, ct),
     preH |-> CountIn(admitted[s], ct - HourWindow, ct)]

\* check_rate_limit, lines 71-92 / 96-130: everything up to the first real
\* suspension (asyncio.sleep) or up to the return / raise
CheckRateLimit(t, s) ==
    /\ rl_task[t].pc = "idle"
    /\ \A u \in RLTasks : rl_task[u].pc = "idle" => u >= t
    /\ LET ct == rl_now
           c == AfterPeriodicCleanup(ct)
           bq == CheckBurstLimit(c.b, s, ct)
           b1 == DictPut(c.b, s, bq)
           mq == CheckMinuteLimit(c.m, s, ct)
           m1 == DictPut(c.m, s, mq)
           hq == CheckHourLimit(c.h, s, ct)
           h1 == DictPut(c.h, s, hq)
           vinc == DictPut(c.v, s, CountOf(c.v, s) + 1)
       IN  /\ last_cleanup' = IF ct - last_cleanup > CleanupInterval THEN ct ELSE last_cleanup
           /\ IF ~(Len(bq) < burst_limit)
              THEN \* burst violation: count it, sleep the backoff, then raise
                   /\ burst_requests' = b1
                   /\ minute_requests' = c.m
                   /\ hour_requests' = c.h
                   /\ vinc[s] <= rl_maxv
                   /\ violation_counts' = vinc
                   /\ rl_task' = [rl_task EXCEPT ![t] =
                          [pc |-> "backoff", sess |-> s, call_time |-> ct,
                           wake |-> ct + BackoffTime(vinc[s])]]
                   /\ rl_last' = CallRecord(s, ct, "burst_sleeping", BackoffTime(vinc[s]))
                   /\ UNCHANGED admitted
              ELSE IF ~(Len(mq) < requests_per_minute)
              THEN /\ burst_requests' = b1
                   /\ minute_requests' = m1
                   /\ hour_requests' = c.h
                   /\ vinc[s] <= rl_maxv
                   /\ violation_counts' = vinc
                   /\ rl_task' = rl_task
                   /\ rl_last' = CallRecord(s, ct, "minute", 0)
                   /\ UNCHANGED admitted
              ELSE IF ~(Len(hq) < requests_per_hour)
              THEN /\ burst_requests' = b1
                   /\ minute_requests' = m1
                   /\ hour_requests' = h1
                   /\ vinc[s] <= rl_maxv
                   /\ violation_counts' = vinc
                   /\ rl_task' = rl_task
                   /\ rl_last' = CallRecord(s, ct, "hour", 0)
                   /\ UNCHANGED admitted
              ELSE \* _record_request, then the violation counter decays
                   /\ burst_requests' = DictPut(b1, s, Append(bq, ct))
                   /\ minute_requests' = DictPut(m1, s, Append(mq, ct))
                   /\ hour_requests' = DictPut(h1, s, Append(hq, ct))
                   /\ violation_counts' =
                          IF s \in DOMAIN c.v
                          THEN DictPut(c.v, s, Max2(0, c.v[s] - 1))
                          ELSE c.v
                   /\ rl_task' = rl_task
                   /\ rl_last' = CallRecord(s, ct, "admitted", 0)
                   /\ admitted' = [admitted EXCEPT ![s] = Append(@, ct)]
    /\ UNCHANGED <<rl_now, burst_limit, requests_per_minute, requests_per_hour>>

\* check_rate_limit, lines 92-94: asyncio.sleep(backoff_time) is over, the
\* RateLimitExceeded surfaces
BackoffRaise(t) ==
    /\ rl_task[t].pc = "backoff"
    /\ rl_now >= rl_task[t].wake
    /\ rl_task' = [rl_task EXCEPT ![t] = IdleTask]
    /\ rl_last' = [NoCall EXCEPT !.sess = rl_task[t].sess, !.outcome = "burst_raised",
                                 !.backoff = rl_task[t].wake - rl_task[t].call_time,
                                 !.slept = rl_now - rl_task[t].call_time]
    /\ UNCHANGED <<rl_now, burst_limit, requests_per_minute, requests_per_hour,
                   burst_requests, minute_requests, hour_requests, violation_counts,
                   last_cleanup, admitted>>

\* time passes
RLTick ==
    /\ \E i \in RLInstants : i > rl_now /\ rl_now' = i
    /\ rl_last' = NoCall
    /\ UNCHANGED <<burst_limit, requests_per_minute, requests_per_hour,
                   burst_requests, minute_requests, hour_requests, violation_counts,
                   last_cleanup, rl_task, admitted>>



(***************************************************************************)
(*                  OAuthManager  (auth/oauth_manager.py)                  *)
(***************************************************************************)

\* what the token endpoint can answer to one POST
\*   net   : httpx.RequestError (connect / read failure, timeout)
\*   http  : a response; status 200 or not; the body parses as JSON or not;
\*           the fields of the JSON object (None: the key is absent)
AccessTokens == {"at1", "at2"}
RefreshTokens == {"rt1", "rt2"}
ExpiresIns == {30, 3600}
Bodies ==
    [access_token : {None, "at2"}, refresh_token : {None, "rt2"},
     token_type : {None, "Bearer"}, expires_in : {NoInt} \cup ExpiresIns,
     scope : {None, "scope2"}]
NoBody == [access_token |-> None, refresh_token |-> None, token_type |-> None,
           expires_in |-> NoInt, scope |-> None]
\* kind  : "net": the POST raised an httpx.RequestError; "http": it was answered
\* ctype : the answer's content-type header is application/json, or another
\* json  : the answer's body parses as a JSON object
Responses ==
    {[kind |-> "net", status |-> 0, ctype |-> "other", json |-> FALSE, body |-> NoBody]}
    \cup {[kind |-> "http", status |-> st, ctype |-> ct, json |-> FALSE, body |-> NoBody] :
             st \in {200, 400}, ct \in {"json", "other"}}
    \cup {[kind |-> "http", status |-> 400, ctype |-> "json", json |-> TRUE, body |-> NoBody]}
    \cup {[kind |-> "http", status |-> 200, ctype |-> "json", json |-> TRUE, body |-> b] :
             b \in Bodies}
NoResponse == [kind |-> "none", status |-> 0, ctype |-> "other", json |-> FALSE, body |-> NoBody]

MaxRefreshCount == 2
StopAfterAttempt == 3
WaitMin == 2
WaitMax == 10

VARIABLES
    oa_now,         \* datetime.utcnow(), seconds
    oa_pc,          \* "idle" | "post": a POST of refresh_token is in flight
    oa_token,       \* the oauth_token argument of the running / last refresh_token call
    oa_attempt,     \* tenacity: attempt number of the running call
    oa_posts,       \* history: POSTs sent by the running / last call
    oa_nets,        \* history: of these, the POSTs that failed at the transport level
    oa_waited,      \* history: seconds slept between attempts
    oa_resp,        \* history: the outcome of the last POST of the running / last call
    oa_result       \* what the last call returned or raised

oa_vars == <<oa_now, oa_pc, oa_token, oa_attempt, oa_posts, oa_nets, oa_waited, oa_resp,
             oa_result>>

\* OAuthToken (models/auth.py)
Token(at, rt, tt, ei, sc, created, refreshed, rc) ==
    [access_token |-> at, refresh_token |-> rt, token_type |-> tt, expires_in |-> ei,
     scope |-> sc, created_at |-> created, refreshed_at |-> refreshed, refresh_count |-> rc]

NoToken == Token(None, None, None, 0, None, 0, NoInt, 0)

\* dict.get(key, default)
GetOr(v, default) == IF v = None THEN default ELSE v

\* refresh taking the refresh token of the response only
TokenRefreshNoDefault(tok, body, now) ==
    IF body.access_token = None \/ body.expires_in = NoInt
    THEN [kind |-> "KeyError", token |-> NoToken]
    ELSE [kind |-> "token",
          token |-> Token(body.access_token, body.refresh_token,
                          GetOr(body.token_type, "Bearer"), body.expires_in,
                          GetOr(body.scope, tok.scope), now, now, tok.refresh_count + 1)]

\* OAuthToken.refresh(new_token_data): the new token, or KeyError
TokenRefresh(tok, body, now) ==
    IF body.access_token = None \/ body.expires_in = NoInt
    THEN [kind |-> "KeyError", token |-> NoToken]
    ELSE [kind |-> "token",
          token |-> Token(body.access_token,
                          GetOr(body.refresh_token, tok.refresh_token),
                          GetOr(body.token_type, "Bearer"),
                          body.expires_in,
                          GetOr(body.scope, tok.scope),
                          now, now, tok.refresh_count + 1)]

\* the body of refresh_token (lines 174-220) for one response to its POST:
\* what it returns or raises
RefreshBody(tok, r, now) ==
    IF r.kind = "net" THEN [kind |-> "OAuthError", token |-> NoToken]
    ELSE IF r.status # 200
         THEN \* line 194: response.json() if the content type is JSON, else {}
              IF r.ctype = "json" /\ ~r.json
              THEN [kind |-> "JSONDecodeError", token |-> NoToken]
              ELSE [kind |-> "OAuthError", token |-> NoToken]
    ELSE IF ~r.json THEN [kind |-> "JSONDecodeError", token |-> NoToken]
    ELSE TokenRefresh(tok, r.body, now)

\* @retry(stop=stop_after_attempt(3), wait=wait_exponential(multiplier=1, min=2, max=10),
\*        retry=retry_if_exception_type((httpx.RequestError, httpx.HTTPStatusError)))
RetryOn == {"RequestError", "HTTPStatusError"}
ShouldRetry(kind, attempt) == kind \in RetryOn /\ attempt < StopAfterAttempt
WaitExponential(attempt) == Max2(WaitMin, Min2(WaitMax, Pow2(attempt)))

\* the tokens refresh_token is called with: issued earlier by an exchange
\* (with or without a refresh token), or returned by the previous refresh
InputTokens ==
    {Token(at, rt, "Bearer", ei, "scope1", 0, NoInt, 0) :
        at \in {"at1"}, rt \in {None, "rt1"}, ei \in ExpiresIns}
    \cup (IF oa_result.kind = "token" /\ oa_result.token.refresh_count < MaxRefreshCount
          THEN {oa_result.token} ELSE {})

OAInit ==
    /\ oa_now = 0
    /\ oa_pc = "idle"
    /\ oa_token = NoToken
    /\ oa_attempt = 0
    /\ oa_posts = 0
    /\ oa_nets = 0
    /\ oa_waited = 0
    /\ oa_resp = NoResponse
    /\ oa_result = [kind |-> "none", token |-> NoToken]

\* refresh_token is called: lines 174-191, up to the POST
RefreshStart ==
    /\ oa_pc = "idle"
    /\ \E tok \in InputTokens :
        /\ oa_token' = tok
        /\ oa_attempt' = 1
        /\ oa_nets' = 0
        /\ oa_waited' = 0
        /\ oa_resp' = NoResponse
        /\ IF tok.refresh_token = None
           THEN /\ oa_result' = [kind |-> "OAuthError", token |-> NoToken]
                /\ oa_posts' = 0
                /\ oa_pc' = "idle"
           ELSE /\ oa_result' = [kind |-> "none", token |-> NoToken]
                /\ oa_posts' = 1
                /\ oa_pc' = "post"
    /\ UNCHANGED oa_now

\* the POST completes: lines 193-220, then the retry decorator decides
RefreshResponse ==
    /\ oa_pc = "post"
    /\ \E r \in Responses :
        LET out == RefreshBody(oa_token, r, oa_now) IN
        /\ oa_nets' = oa_nets + (IF r.kind = "net" THEN 1 ELSE 0)
        /\ oa_resp' = r
        /\ IF ShouldRetry(out.kind, oa_attempt)
           THEN /\ oa_attempt' = oa_attempt + 1
                /\ oa_waited' = oa_waited + WaitExponential(oa_attempt)
                /\ oa_posts' = oa_posts + 1
                /\ oa_pc' = "post"
                /\ UNCHANGED oa_result
           ELSE /\ oa_result' = out
                /\ oa_pc' = "idle"
                /\ UNCHANGED <<oa_attempt, oa_waited, oa_posts>>
    /\ UNCHANGED <<oa_now, oa_token>>

OATick ==
    /\ oa_pc = "idle"
    /\ oa_now < 1
    /\ oa_now' = oa_now + 1
    /\ UNCHANGED <<oa_pc, oa_token, oa_attempt, oa_posts, oa_nets, oa_waited, oa_resp,
                   oa_result>>

(***************************************************************************)
(*   SessionManager (auth/session_manager.py) over a TokenStorage backend  *)
(*   (auth/token_storage.py); UserSession and OAuthToken (models/auth.py)  *)
(***************************************************************************)

Sids == {"sidA", "sidB"}        \* session ids that requests name
NewSids == {"sidA"}             \* of these, the ids create_session generates
SMTasks == {1, 2}               \* request-handling tasks sharing the manager
ObjIds == {1, 2, 3}             \* UserSession objects alive at one time
Backends == {"memory", "redis"} \* MemoryTokenStorage | RedisTokenStorage
SMMaxRequests == {1}            \* max_requests arguments of check_rate_limit

\* the instants at which requests arrive: a session touched at 0 is not
\* expired at 3600 and is expired at 3601
SMInstants == {0, 3600, 3601}
MaxRestarts == 1
MaxCalls == 3

SessionTimeout == 3600
TokenBuffer == 60
RateWindow == 60
RedisSessionTTL == 3600

VARIABLES
    sm_now,         \* datetime.utcnow(), seconds
    sm_backend,     \* which TokenStorage the manager was constructed with
    sm_store,       \* TokenStorage sessions: dict sid -> [data, exp]
    sm_cache,       \* SessionManager._sessions: dict sid -> object
    sm_obj,         \* the UserSession objects (heap)
    sm_task,        \* per task: where it is inside a SessionManager call
    sm_used,        \* session ids generated so far (they are never generated twice)
    sm_calls,       \* requests taken so far (bounded)
    sm_restarts,    \* process restarts so far (bounded)
    sm_authd,       \* history: ids whose authenticate_session returned a session it stored
    sm_deleted,     \* history: ids of existing sessions a delete_session call returned for
    sm_last         \* history: the call that returned in the last step

sm_vars == <<sm_calls, sm_now, sm_backend, sm_store, sm_cache, sm_obj, sm_task,
             sm_used, sm_restarts, sm_authd, sm_deleted, sm_last>>

\* UserSession (models/auth.py lines 88-110)
Session(sid, uid, tok, st, created, la, pkce, rc, reset) ==
    [session_id |-> sid, user_id |-> uid, oauth_token |-> tok, state |-> st,
     created_at |-> created, last_accessed |-> la, pkce_challenge |-> pkce,
     request_count |-> rc, rate_limit_reset |-> reset]

NoSession == Session(None, None, NoToken, None, 0, 0, None, 0, 0)

\* UserSession.create_new: PENDING, a generated PKCE challenge, no token
CreateNew(sid, now) ==
    Session(sid, None, NoToken, "pending", now, now, "S256", 0, now + RateWindow)

\* is_expired with a strict comparison: not yet expired at expires_at - 60 s
TokenIsExpiredLate(tok, now) == now > (tok.created_at + tok.expires_in) - TokenBuffer

\* OAuthToken.is_expired: datetime.utcnow() >= expires_at - 60 s
TokenIsExpired(tok, now) == now >= (tok.created_at + tok.expires_in) - TokenBuffer

\* UserSession.is_authenticated
IsAuthenticated(s, now) ==
    /\ s.state = "authorized"
    /\ s.oauth_token # NoToken
    /\ ~TokenIsExpired(s.oauth_token, now)

\* UserSession.is_expired: utcnow() > last_accessed + 1 hour
IsExpired(s, now) == now > s.last_accessed + SessionTimeout

\* UserSession.update_access
UpdateAccess(s, now) == [s EXCEPT !.last_accessed = now]

\* is_rate_limited with a strict comparison: limited only above max_requests
IsRateLimitedAbove(s, max_requests, now) ==
    IF now >= s.rate_limit_reset
    THEN [limited |-> FALSE,
          s |-> [s EXCEPT !.request_count = 0, !.rate_limit_reset = now + RateWindow]]
    ELSE [limited |-> s.request_count > max_requests, s |-> s]

\* UserSession.is_rate_limited: the verdict and the session as it leaves it
IsRateLimited(s, max_requests, now) ==
    IF now >= s.rate_limit_reset
    THEN [limited |-> FALSE,
          s |-> [s EXCEPT !.request_count = 0, !.rate_limit_reset = now + RateWindow]]
    ELSE [limited |-> s.request_count >= max_requests, s |-> s]

\* UserSession.increment_request_count
IncrementRequestCount(s, now) ==
    IF now >= s.rate_limit_reset
    THEN [s EXCEPT !.request_count = 1, !.rate_limit_reset = now + RateWindow]
    ELSE [s EXCEPT !.request_count = s.request_count + 1]

\* exchange_code_for_token with a single except clause: a transport failure
\* is reported with the message of line 154 like every other failure
ExchangeOneHandler(r, now) ==
    IF r.kind = "net" \/ r.status # 200 \/ ~r.json
       \/ r.body.access_token = None \/ r.body.token_type = None
       \/ r.body.expires_in = NoInt
    THEN [kind |-> "OAuthError", msg |-> "unexpected", token |-> NoToken]
    ELSE [kind |-> "token", msg |-> "",
          token |-> Token(r.body.access_token, r.body.refresh_token,
                          GetOr(r.body.token_type, "Bearer"), r.body.expires_in,
                          GetOr(r.body.scope, "scope1"), now, NoInt, 0)]

\* exchange_code_for_token (oauth_manager.py lines 106-154) for one response
\* to its POST: the token, or the OAuthError it raises ("network": raised by
\* the except httpx.RequestError clause; "unexpected": by except Exception,
\* which also wraps the OAuthError raised inside the try block)
ExchangeCodeForToken(r, now) ==
    IF r.kind = "net"
    THEN [kind |-> "OAuthError", msg |-> "network", token |-> NoToken]
    ELSE IF r.status # 200 \/ ~r.json
            \/ r.body.access_token = None \/ r.body.token_type = None
            \/ r.body.expires_in = NoInt
    THEN [kind |-> "OAuthError", msg |-> "unexpected", token |-> NoToken]
    ELSE [kind |-> "token", msg |-> "",
          token |-> Token(r.body.access_token, r.body.refresh_token,
                          GetOr(r.body.token_type, "Bearer"), r.body.expires_in,
                          GetOr(r.body.scope, "scope1"), now, NoInt, 0)]

\* the answers of the token endpoint the session flows are exercised with
SMResponses ==
    {r \in Responses :
        \/ r.kind = "net"
        \/ r.status = 400 /\ r.json
        \/ /\ r.status = 200 /\ r.json
           /\ r.body.access_token # None /\ r.body.token_type # None
           /\ r.body.refresh_token # None /\ r.body.scope = None}

\* ---- storage (TokenStorage) -------------------------------------------

\* whether a call of the backend can fail on the way to the server: a Redis
\* call can (connection refused, timeout), a dict access cannot
StorageOutcomes == IF sm_backend = "redis" THEN {TRUE, FALSE} ELSE {TRUE}

\* setex(key, 3600, data) for Redis; the in-memory dict never expires a key
StoreEntry(data, now) ==
    [data |-> data, exp |-> IF sm_backend = "redis" THEN now + RedisSessionTTL ELSE NoInt]

Live(e, now) == e.exp = NoInt \/ now < e.exp

\* ---- tasks -------------------------------------------------------------

\* op   : the SessionManager method the task is in ("none": in no call)
\* pc   : "idle", or the storage call it awaits: "load" (storage.get_session),
\*        "store" (storage.store_session), "del" (storage.delete_session)
\* ctx  : "get": the await is inside get_session; "final": it is the last of op
\* obj  : the local variable session; snap: the model_dump() passed to the store
Task(op, pc, ctx, sid, obj, tok, maxreq, snap, absent, raced) ==
    [op |-> op, pc |-> pc, ctx |-> ctx, sid |-> sid, obj |-> obj, tok |-> tok,
     maxreq |-> maxreq, snap |-> snap, absent |-> absent, raced |-> raced]

\* a task in no call
Idle == Task("none", "idle", "", None, 0, NoToken, 0, NoSession, FALSE, FALSE)

\* history record of a call that has just returned
Event(t, op, sid, ret, obj, tok, path, absent, raced) ==
    [task |-> t, op |-> op, sid |-> sid, ret |-> ret, obj |-> obj, tok |-> tok,
     path |-> path, absent |-> absent, raced |-> raced]
NoEvent == Event(0, "none", None, "none", 0, NoToken, "", FALSE, FALSE)

\* asyncio runs a task until it awaits something that is not ready: with the
\* in-memory backend no storage call ever suspends, so a call runs to its end
\* before any other task; with Redis every storage call suspends the task
Busy == {t \in SMTasks : sm_task[t].pc # "idle"}
CanRun(t) == sm_backend = "redis" \/ Busy \subseteq {t}
Quiescent == Busy = {}

\* objects that are still referenced
Referenced(cache, tasks, last) ==
    {cache[k] : k \in DOMAIN cache}
    \cup {tasks[t].obj : t \in SMTasks}
    \cup {last.obj}

FreeObjs == {i \in ObjIds : sm_obj[i] = NoSession}
NewObj == CHOOSE i \in FreeObjs : \A j \in FreeObjs : i <= j

\* the step's effect on the manager; unreferenced objects are dropped
Commit(heap, cache, tasks, last) ==
    /\ sm_cache' = cache
    /\ sm_task' = tasks
    /\ sm_last' = last
    /\ sm_obj' = [i \in ObjIds |->
                    IF i \in Referenced(cache, tasks, last) THEN heap[i] ELSE NoSession]

SMInit ==
    /\ sm_now = 0
    /\ sm_backend \in Backends
    /\ sm_store = EmptyDict
    /\ sm_cache = EmptyDict
    /\ sm_obj = [i \in ObjIds |-> NoSession]
    /\ sm_task = [t \in SMTasks |-> Idle]
    /\ sm_used = {}
    /\ sm_restarts = 0
    /\ sm_calls = 0
    /\ sm_authd = {}
    /\ sm_deleted = {}
    /\ sm_last = NoEvent

\* ---- SessionManager calls ----------------------------------------------

\* the task's call returns ret (and the session object o, or 0 for none)
Return(t, tk, ret, o, path, heap, cache, ts) ==
    Commit(heap, cache,
           [ts EXCEPT ![t] = Idle],
           Event(t, tk.op, tk.sid, ret, o, tk.tok, path, tk.absent, tk.raced))

\* the task awaits a call of the storage backend
Await(t, tk, pc, ctx, obj, snap, heap, cache, ts) ==
    Commit(heap, cache,
           [ts EXCEPT ![t] = [tk EXCEPT !.pc = pc, !.ctx = ctx, !.obj = obj,
                                        !.snap = snap]],
           NoEvent)

\* _store_session(session), lines 250-257: the cache entry is written, then
\* the task awaits storage.store_session(id, session.model_dump())
StoreSession(t, tk, ctx, o, heap, cache, ts) ==
    Await(t, tk, "store", ctx, o, heap[o], heap,
          DictPut(cache, heap[o].session_id, o), ts)

\* delete_session(sid), lines 153-159: the cache entry is removed, then the
\* task awaits storage.delete_session(sid)
DeleteSessionBegin(t, tk, ctx, heap, cache, ts) ==
    Await(t, tk, "del", ctx, 0, NoSession, heap, DictDel(cache, tk.sid), ts)

\* the arguments of a new call; absent: the id is in neither cache nor storage
Call(op, sid, tok, maxreq) ==
    Task(op, "idle", "", sid, 0, tok, maxreq, NoSession,
         sid \notin DOMAIN sm_cache /\ sid \notin DOMAIN sm_store, FALSE)

\* a request is handled by a task that is in no call; these tasks are
\* interchangeable, so the lowest-numbered of them takes it
CanCall(t) ==
    /\ sm_task[t].pc = "idle" /\ CanRun(t)
    /\ sm_calls < MaxCalls
    /\ sm_calls' = sm_calls + 1
    /\ \A u \in SMTasks : u < t => sm_task[u].pc # "idle"

\* a client can name the id of a session only once create_session has
\* returned it (the other ids are ids no session ever had)
Known(sid) ==
    sid \in NewSids =>
        /\ sid \in sm_used
        /\ \A u \in SMTasks : ~(sm_task[u].op = "create" /\ sm_task[u].sid = sid)

\* get_session(sid) up to its first await, lines 94-107
GetSessionBegin(t, tk) ==
    IF tk.sid \in DOMAIN sm_cache
    THEN LET o == sm_cache[tk.sid] IN
         IF ~IsExpired(sm_obj[o], sm_now)
         THEN /\ StoreSession(t, tk, "get", o,
                              [sm_obj EXCEPT ![o] = UpdateAccess(sm_obj[o], sm_now)],
                              sm_cache, sm_task)
              /\ UNCHANGED sm_authd
         ELSE /\ DeleteSessionBegin(t, tk, "get", sm_obj, sm_cache, sm_task)
              /\ sm_authd' = sm_authd \ {tk.sid}
    ELSE /\ Await(t, tk, "load", "get", 0, NoSession, sm_obj, sm_cache, sm_task)
         /\ UNCHANGED sm_authd

\* authenticate_session, lines 199-201
AuthenticateKeepState(s, tok) ==
    [s EXCEPT !.oauth_token = tok, !.user_id = "u1"]
Authenticate(s, tok) ==
    [s EXCEPT !.oauth_token = tok, !.user_id = "u1", !.state = "authorized"]

\* the code that follows "session = await self.get_session(sid)" in the
\* caller, up to its next await or its return; o = 0 stands for None
AfterGetSession(t, tk, o, path, heap, cache, ts) ==
    IF tk.op = "get"
    THEN Return(t, tk, IF o = 0 THEN "None" ELSE "session", o, path, heap, cache, ts)
    ELSE IF tk.op = "auth"
    THEN \* authenticate_session, lines 191-203
         IF o = 0 THEN Return(t, tk, "None", 0, path, heap, cache, ts)
         ELSE StoreSession(t, tk, "final", o,
                           [heap EXCEPT ![o] = Authenticate(heap[o], tk.tok)], cache, ts)
    ELSE \* check_rate_limit, lines 230-246
         IF o = 0 THEN Return(t, tk, "False", 0, path, heap, cache, ts)
         ELSE LET rl == IsRateLimited(heap[o], tk.maxreq, sm_now) IN
              IF rl.limited
              THEN Return(t, tk, "False", 0, "limited", [heap EXCEPT ![o] = rl.s], cache, ts)
              ELSE StoreSession(t, tk, "final", o,
                                [heap EXCEPT ![o] = IncrementRequestCount(rl.s, sm_now)],
                                cache, ts)

SMFrame == UNCHANGED <<sm_now, sm_backend, sm_restarts>>
SMCallFrame == SMFrame /\ UNCHANGED <<sm_store, sm_deleted>>
SMResumeFrame == SMFrame /\ UNCHANGED <<sm_calls, sm_used>>

\* create_session(), lines 69-72; the id is one never generated before
CreateSession(t) ==
    /\ CanCall(t)
    /\ FreeObjs # {}
    /\ NewSids \ sm_used # {}
    /\ LET sid == CHOOSE x \in NewSids \ sm_used : TRUE IN
         /\ sm_used' = sm_used \cup {sid}
         /\ StoreSession(t, Call("create", sid, NoToken, 0), "final", NewObj,
                         [sm_obj EXCEPT ![NewObj] = CreateNew(sid, sm_now)],
                         sm_cache, sm_task)
    /\ UNCHANGED sm_authd
    /\ SMCallFrame

\* get_session(sid)
GetSession(t, sid) ==
    /\ CanCall(t)
    /\ Known(sid)
    /\ GetSessionBegin(t, Call("get", sid, NoToken, 0))
    /\ UNCHANGED sm_used
    /\ SMCallFrame

\* the OAuth callback for session sid: exchange_code_for_token answers r; if
\* it raises the callback ends, otherwise authenticate_session(sid, token,
\* user_id) is called with the token it returned
AuthenticateSession(t, sid) ==
    /\ CanCall(t)
    /\ Known(sid)
    /\ \E r \in SMResponses :
         LET res == ExchangeCodeForToken(r, sm_now) IN
         IF res.kind = "token"
         THEN GetSessionBegin(t, Call("auth", sid, res.token, 0))
         ELSE /\ Return(t, Call("exchange", sid, NoToken, 0), res.kind, 0, res.msg,
                        sm_obj, sm_cache, sm_task)
              /\ UNCHANGED sm_authd
    /\ UNCHANGED sm_used
    /\ SMCallFrame

\* check_rate_limit(sid, max_requests)
SMCheckRateLimit(t, sid, max_requests) ==
    /\ CanCall(t)
    /\ Known(sid)
    /\ GetSessionBegin(t, Call("crl", sid, NoToken, max_requests))
    /\ UNCHANGED sm_used
    /\ SMCallFrame

\* update_session(session), lines 134-135, with the session object that
\* get_session hands out for sid (the cached one)
UpdateSession(t, sid) ==
    /\ CanCall(t)
    /\ Known(sid)
    /\ sid \in DOMAIN sm_cache
    /\ LET o == sm_cache[sid] IN
         StoreSession(t, Call("update", sid, NoToken, 0), "final", o,
                      [sm_obj EXCEPT ![o] = UpdateAccess(sm_obj[o], sm_now)],
                      sm_cache, sm_task)
    /\ UNCHANGED <<sm_used, sm_authd>>
    /\ SMCallFrame

\* delete_session(sid)
DeleteSession(t, sid) ==
    /\ CanCall(t)
    /\ Known(sid)
    /\ DeleteSessionBegin(t, Call("delete", sid, NoToken, 0), "final",
                          sm_obj, sm_cache, sm_task)
    /\ sm_authd' = sm_authd \ {sid}
    /\ UNCHANGED sm_used
    /\ SMCallFrame

\* ---- the storage call a task awaits completes ---------------------------

\* The call takes effect on the backend at the moment the awaiting task is
\* resumed, so calls take effect in the order in which their tasks resume.
\* ok = FALSE: the Redis call failed. The exception is caught inside the
\* backend: get_session returns None, delete_session returns, store_session
\* re-raises and _store_session (lines 256-263) logs the error and carries on
Resumable(t, pc) == sm_task[t].pc = pc /\ CanRun(t)

\* what storage.get_session(sid) returns: the stored data, or None
LoadedDataOrNew(sid, ok) ==
    IF ok /\ sid \in DOMAIN sm_store THEN sm_store[sid].data ELSE CreateNew(sid, sm_now)
LoadedData(sid, ok) ==
    IF ok /\ sid \in DOMAIN sm_store THEN sm_store[sid].data ELSE NoSession

\* storage.get_session answers; get_session goes on, lines 108-125
ResumeLoad(t, ok) ==
    LET tk == sm_task[t]
        data == LoadedData(tk.sid, ok)
    IN
    /\ Resumable(t, "load")
    /\ IF data = NoSession
       THEN /\ AfterGetSession(t, tk, 0, "missing", sm_obj, sm_cache, sm_task)
            /\ UNCHANGED sm_authd
       ELSE IF ~IsExpired(data, sm_now)
       THEN /\ FreeObjs # {}
            /\ StoreSession(t, tk, "get", NewObj,
                            [sm_obj EXCEPT ![NewObj] = UpdateAccess(data, sm_now)],
                            sm_cache, sm_task)
            /\ UNCHANGED sm_authd
       ELSE /\ DeleteSessionBegin(t, tk, "get", sm_obj, sm_cache, sm_task)
            /\ sm_authd' = sm_authd \ {tk.sid}
    /\ UNCHANGED <<sm_store, sm_deleted>>
    /\ SMResumeFrame

\* storage.store_session completes; _store_session returns
ResumeStore(t, ok) ==
    LET tk == sm_task[t] IN
    /\ Resumable(t, "store")
    /\ sm_store' = IF ok THEN DictPut(sm_store, tk.snap.session_id, StoreEntry(tk.snap, sm_now))
                   ELSE sm_store
    /\ IF tk.ctx = "get"
       THEN /\ AfterGetSession(t, tk, tk.obj, "found", sm_obj, sm_cache, sm_task)
            /\ UNCHANGED sm_authd
       ELSE /\ Return(t, tk,
                      IF tk.op \in {"create", "auth"} THEN "session"
                      ELSE IF tk.op = "crl" THEN "True" ELSE "none",
                      tk.obj, "found", sm_obj, sm_cache, sm_task)
            /\ sm_authd' = IF tk.op = "auth" /\ ok THEN sm_authd \cup {tk.sid} ELSE sm_authd
    /\ UNCHANGED sm_deleted
    /\ SMResumeFrame

\* history: the calls of authenticate_session and update_session on sid that
\* are in flight when a delete_session of sid returns, having removed it
Raced(t, sid, ok) ==
    [u \in SMTasks |->
        IF ok /\ ~sm_task[t].absent /\ u # t /\ sm_task[u].pc # "idle" /\ sm_task[u].sid = sid
           /\ sm_task[u].op \in {"auth", "update"}
        THEN [sm_task[u] EXCEPT !.raced = TRUE] ELSE sm_task[u]]

\* storage.delete_session completes; delete_session returns True (lines
\* 159-164: neither backend's delete_session raises)
ResumeDelete(t, ok) ==
    LET tk == sm_task[t] IN
    /\ Resumable(t, "del")
    /\ sm_store' = IF ok THEN DictDel(sm_store, tk.sid) ELSE sm_store
    /\ IF tk.ctx = "get"
       THEN /\ AfterGetSession(t, tk, 0, "expired", sm_obj, sm_cache, Raced(t, tk.sid, ok))
            /\ UNCHANGED sm_deleted
       ELSE /\ Return(t, tk, "True", 0, "", sm_obj, sm_cache, Raced(t, tk.sid, ok))
            /\ sm_deleted' = IF tk.absent THEN sm_deleted ELSE sm_deleted \cup {tk.sid}
    /\ UNCHANGED sm_authd
    /\ SMResumeFrame

\* ---- environment ---------------------------------------------------------

\* time passes between requests; Redis drops the keys whose TTL has run out
SMTick ==
    /\ Quiescent
    /\ \E i \in SMInstants :
         /\ i > sm_now
         /\ sm_now' = i
         /\ sm_store' = [k \in {x \in DOMAIN sm_store : Live(sm_store[x], i)} |-> sm_store[k]]
    /\ Commit(sm_obj, sm_cache, sm_task, NoEvent)
    /\ UNCHANGED <<sm_backend, sm_used, sm_restarts, sm_authd, sm_deleted, sm_calls>>

\* the server process is restarted: a new SessionManager (empty cache) over
\* the same storage; what MemoryTokenStorage held is lost
SMRestart ==
    /\ Quiescent
    /\ sm_restarts < MaxRestarts
    /\ sm_restarts' = sm_restarts + 1
    /\ sm_store' = IF sm_backend = "memory" THEN EmptyDict ELSE sm_store
    /\ sm_authd' = IF sm_backend = "memory" THEN {} ELSE sm_authd
    /\ Commit(sm_obj, EmptyDict, [t \in SMTasks |-> Idle], NoEvent)
    /\ UNCHANGED <<sm_now, sm_backend, sm_used, sm_deleted, sm_calls>>

(***************************************************************************)
(*      OAuthManager: exchange_code_for_token and revoke_token (auth/      *)
(*      oauth_manager.py), the calls of the provider that are not retried  *)
(***************************************************************************)

PXInstants == {0, 10}

VARIABLES
    px_now,         \* datetime.utcnow(), seconds
    px_pc,          \* "idle" | "exchange" | "revoke": the call whose POST is in flight
    px_op,          \* history: the running / last call
    px_posts,       \* history: POSTs sent by the running / last call
    px_resp,        \* history: the outcome of the POST of the running / last call
    px_result       \* what the last call returned or raised

px_vars == <<px_now, px_pc, px_op, px_posts, px_resp, px_result>>

PXResult(kind, msg, token, value) ==
    [kind |-> kind, msg |-> msg, token |-> token, value |-> value]

NoPXResult == PXResult("none", "", NoToken, FALSE)

\* revoke_token without the except clause of lines 253-255
RevokeUnguarded(r) ==
    IF r.kind = "net" THEN PXResult("RequestError", "", NoToken, FALSE)
    ELSE PXResult("bool", "", NoToken, r.status = 200)

\* the body of revoke_token (lines 234-255) for one outcome of its POST: the
\* answer's body is never read
RevokeToken(r) ==
    IF r.kind = "net" THEN PXResult("bool", "", NoToken, FALSE)
    ELSE PXResult("bool", "", NoToken, r.status = 200)

PXInit ==
    /\ px_now = 0
    /\ px_pc = "idle"
    /\ px_op = "none"
    /\ px_posts = 0
    /\ px_resp = NoResponse
    /\ px_result = NoPXResult

\* exchange_code_for_token / revoke_token is called: up to its POST
\* (lines 97-113, 232-241)
PXStart(op) ==
    /\ px_pc = "idle"
    /\ px_pc' = op
    /\ px_op' = op
    /\ px_posts' = 1
    /\ px_resp' = NoResponse
    /\ px_result' = NoPXResult
    /\ UNCHANGED px_now

\* the POST of exchange_code_for_token completes: lines 115-154
ExchangeResponse ==
    /\ px_pc = "exchange"
    /\ \E r \in Responses :
        LET out == ExchangeCodeForToken(r, px_now) IN
        /\ px_resp' = r
        /\ px_result' = PXResult(out.kind, out.msg, out.token, FALSE)
    /\ px_pc' = "idle"
    /\ UNCHANGED <<px_now, px_op, px_posts>>

\* the POST of revoke_token completes: lines 243-255
RevokeResponse ==
    /\ px_pc = "revoke"
    /\ \E r \in Responses :
        /\ px_resp' = r
        /\ px_result' = RevokeToken(r)
    /\ px_pc' = "idle"
    /\ UNCHANGED <<px_now, px_op, px_posts>>

PXTick ==
    /\ \E n \in PXInstants : n > px_now /\ px_now' = n
    /\ UNCHANGED <<px_pc, px_op, px_posts, px_resp, px_result>>

(***************************************************************************)
(*               EncryptionManager (security/encryption.py)                *)
(*                                                                         *)
(* Text and bytes are sequences of character codes (all modelled text is   *)
(* ASCII, so encode('utf-8') and decode('utf-8') keep the codes).  A       *)
(* Fernet token is the URL-safe base64 text of                             *)
(*     version | iv | AES-CBC(PKCS7(plaintext)) | HMAC                     *)
(* with the timestamp left out and iv and HMAC shortened to one byte each, *)
(* which keeps the token's length modulo 9, hence the padding of both      *)
(* base64 layers, as in the library.                                       *)
(***************************************************************************)

ChLBrace == 123
ChRBrace == 125
ChQuote == 34
ChColon == 58
ChSpace == 32
ChA == 97
ChOne == 49
ChPad == 61
ChBang == 33
ChPlus == 43
ChSlash == 47
ChMinus == 45
ChUnder == 95

FernetVersion == 128
BlockSize == 16
IVs == {7}

\* ---- payloads ------------------------------------------------------------

\* a Python value: a str, an int, a datetime (v: its text, for a datetime the
\* text str() gives) or a dict with string keys (m: its items in order)
PyValue(t, v, m) == [t |-> t, v |-> v, m |-> m]
PyStr(s) == PyValue("str", s, <<>>)
PyInt(s) == PyValue("int", s, <<>>)
PyDatetime(s) == PyValue("datetime", s, <<>>)
PyDict(items) == PyValue("dict", <<>>, items)
Raised(kind) == PyValue(kind, <<>>, <<>>)

NoValue == Raised("none")
EmptyMap == PyDict(<<>>)
MapOf(val) == PyDict(<<[k |-> <<ChA>>, val |-> val]>>)

\* the strings handed to encrypt: "", "a" and "{}"
Strings == {PyStr(<<>>), PyStr(<<ChA>>), PyStr(<<ChLBrace, ChRBrace>>)}

\* the structured payloads: {}, {"a": "a"}, {"a": 1}, and a map holding a
\* datetime as UserSession.model_dump() does (created_at, last_accessed)
JsonMaps == {EmptyMap, MapOf(PyStr(<<ChA>>)), MapOf(PyInt(<<ChOne>>))}
Maps == JsonMaps \cup {MapOf(PyDatetime(<<ChOne>>))}
Payloads == Strings \cup Maps

\* ---- json ----------------------------------------------------------------

\* json.dumps(value, default=str) of a value inside a map
DumpValue(val) ==
    CASE val.t = "str" -> <<ChQuote>> \o val.v \o <<ChQuote>>
      [] val.t = "int" -> val.v
      [] val.t = "datetime" -> <<ChQuote>> \o val.v \o <<ChQuote>>

\* json.dumps(data, default=str) of a map of at most one key
JsonDumps(data) ==
    IF data.m = <<>>
    THEN <<ChLBrace, ChRBrace>>
    ELSE <<ChLBrace, ChQuote>> \o data.m[1].k \o <<ChQuote, ChColon, ChSpace>>
            \o DumpValue(data.m[1].val) \o <<ChRBrace>>

IsQuoted(s) ==
    /\ Len(s) >= 2 /\ s[1] = ChQuote /\ s[Len(s)] = ChQuote
    /\ \A i \in 2..(Len(s) - 1) : s[i] # ChQuote

\* json.loads of a scalar text: a number or a string
LoadScalar(s) ==
    IF s = <<ChOne>> THEN PyInt(<<ChOne>>)
    ELSE IF IsQuoted(s) THEN PyStr(SubSeq(s, 2, Len(s) - 1))
    ELSE Raised("JSONDecodeError")

MapPrefix == <<ChLBrace, ChQuote>> \o <<ChA>> \o <<ChQuote, ChColon, ChSpace>>

\* json.loads(plaintext), for the texts the model produces
JsonLoads(s) ==
    IF s = <<ChLBrace, ChRBrace>> THEN EmptyMap
    ELSE IF /\ Len(s) > Len(MapPrefix) + 1
            /\ SubSeq(s, 1, Len(MapPrefix)) = MapPrefix
            /\ s[Len(s)] = ChRBrace
    THEN LET val == LoadScalar(SubSeq(s, Len(MapPrefix) + 1, Len(s) - 1)) IN
         IF val.t = "JSONDecodeError" THEN val ELSE MapOf(val)
    ELSE LoadScalar(s)

\* ---- base64 --------------------------------------------------------------

\* the character of a 6-bit value: A-Z a-z 0-9, then + / or - _
B64Char(v, plus, slash) ==
    IF v < 26 THEN 65 + v
    ELSE IF v < 52 THEN 97 + (v - 26)
    ELSE IF v < 62 THEN 48 + (v - 52)
    ELSE IF v = 62 THEN plus ELSE slash

\* the 6-bit value of a character of the standard alphabet, 64 for any other
B64Value(c) ==
    IF c >= 65 /\ c <= 90 THEN c - 65
    ELSE IF c >= 97 /\ c <= 122 THEN c - 97 + 26
    ELSE IF c >= 48 /\ c <= 57 THEN c - 48 + 52
    ELSE IF c = ChPlus THEN 62
    ELSE IF c = ChSlash THEN 63
    ELSE 64

RECURSIVE B64EncodeWith(_, _, _)
B64EncodeWith(b, plus, slash) ==
    IF Len(b) = 0 THEN <<>>
    ELSE IF Len(b) = 1
    THEN <<B64Char(b[1] \div 4, plus, slash), B64Char((b[1] % 4) * 16, plus, slash),
           ChPad, ChPad>>
    ELSE IF Len(b) = 2
    THEN <<B64Char(b[1] \div 4, plus, slash),
           B64Char((b[1] % 4) * 16 + b[2] \div 16, plus, slash),
           B64Char((b[2] % 16) * 4, plus, slash), ChPad>>
    ELSE <<B64Char(b[1] \div 4, plus, slash),
           B64Char((b[1] % 4) * 16 + b[2] \div 16, plus, slash),
           B64Char((b[2] % 16) * 4 + b[3] \div 64, plus, slash),
           B64Char(b[3] % 64, plus, slash)>>
         \o B64EncodeWith(SubSeq(b, 4, Len(b)), plus, slash)

\* base64.b64encode and base64.urlsafe_b64encode
B64Encode(b) == B64EncodeWith(b, ChPlus, ChSlash)
UrlsafeB64Encode(b) == B64EncodeWith(b, ChMinus, ChUnder)

B64Error == <<-1>>

\* binascii.a2b_base64 without strict mode, from character i on: quad is the
\* position in the group of four, left the bits carried over, pads the '='
\* seen in a row, out the bytes decoded so far.  A character outside the
\* alphabet is skipped, decoding stops at a completed padding, and the bits
\* left over in the last character are dropped unchecked.
RECURSIVE A2B(_, _, _, _, _, _)
A2B(s, i, quad, left, pads, out) ==
    IF i > Len(s) THEN (IF quad # 0 THEN B64Error ELSE out)
    ELSE IF s[i] = ChPad
    THEN IF quad >= 2 /\ quad + pads + 1 >= 4 THEN out
         ELSE A2B(s, i + 1, quad, left, IF quad >= 2 THEN pads + 1 ELSE pads, out)
    ELSE LET v == B64Value(s[i]) IN
         IF v = 64 THEN A2B(s, i + 1, quad, left, pads, out)
         ELSE CASE quad = 0 -> A2B(s, i + 1, 1, v, 0, out)
                [] quad = 1 -> A2B(s, i + 1, 2, v % 16, 0, Append(out, left * 4 + v \div 16))
                [] quad = 2 -> A2B(s, i + 1, 3, v % 4, 0, Append(out, left * 16 + v \div 4))
                [] quad = 3 -> A2B(s, i + 1, 0, 0, 0, Append(out, left * 64 + v))

\* base64.b64decode(s)
B64Decode(s) == A2B(s, 1, 0, 0, 0, <<>>)

\* base64.urlsafe_b64decode(s): '-' and '_' are translated to '+' and '/'
\* and the result is decoded as standard base64
UrlsafeB64Decode(s) ==
    B64Decode([i \in 1..Len(s) |->
                 IF s[i] = ChMinus THEN ChPlus ELSE IF s[i] = ChUnder THEN ChSlash ELSE s[i]])

\* ---- Fernet --------------------------------------------------------------

\* PKCS7: pad to a whole number of blocks with n bytes of value n, n >= 1
Pkcs7Pad(p) ==
    LET n == BlockSize - (Len(p) % BlockSize) IN p \o [i \in 1..n |-> n]

Pkcs7Unpad(p) == SubSeq(p, 1, Len(p) - p[Len(p)])

\* the cipher, as a byte-wise shift by the iv, and the tag over the message
Cipher(p, iv) == [i \in 1..Len(p) |-> (p[i] + iv) % 256]
Decipher(c, iv) == [i \in 1..Len(c) |-> (c[i] + 256 - iv) % 256]

RECURSIVE SumOf(_)
SumOf(s) == IF Len(s) = 0 THEN 0 ELSE s[1] + SumOf(Tail(s))

Hmac(m) == (SumOf(m) + 1) % 256

Seal(plaintext, iv) ==
    LET m == <<FernetVersion, iv>> \o Cipher(Pkcs7Pad(plaintext), iv) IN
    m \o <<Hmac(m)>>

\* the texts encrypt is given, and the messages the key has authenticated:
\* a message verifies only if the key's holder sealed it
Plaintexts == {x.v : x \in Strings} \cup {JsonDumps(x) : x \in Maps}
Sealed == {Seal(p, iv) : p \in Plaintexts, iv \in IVs}

\* Fernet.encrypt(plaintext) with the iv os.urandom gave
FernetEncrypt(plaintext, iv) == UrlsafeB64Encode(Seal(plaintext, iv))

InvalidToken == <<-2>>

\* Fernet.decrypt(token)
FernetDecrypt(token) ==
    LET data == UrlsafeB64Decode(token) IN
    IF data = B64Error THEN InvalidToken
    ELSE IF Len(data) < 3 \/ data[1] # FernetVersion THEN InvalidToken
    ELSE IF data \notin Sealed THEN InvalidToken
    ELSE Pkcs7Unpad(Decipher(SubSeq(data, 3, Len(data) - 1), data[2]))

\* ---- EncryptionManager ---------------------------------------------------

\* encrypt(data), lines 100-118
Encrypt(data, iv) ==
    LET plaintext == IF data.t = "str" THEN data.v ELSE JsonDumps(data) IN
    B64Encode(FernetEncrypt(plaintext, iv))

\* decrypt(encrypted_data, return_json), lines 135-164
Decrypt(encrypted_data, return_json) ==
    LET encrypted_bytes == B64Decode(encrypted_data) IN
    IF encrypted_bytes = B64Error THEN Raised("EncryptionError")
    ELSE LET plaintext == FernetDecrypt(encrypted_bytes) IN
         IF plaintext = InvalidToken THEN Raised("EncryptionError")
         ELSE IF return_json
         THEN LET result == JsonLoads(plaintext) IN
              IF result.t = "JSONDecodeError" THEN Raised("EncryptionError") ELSE result
         ELSE PyStr(plaintext)

\* the characters a byte of a ciphertext is replaced with: the alphabet, the
\* padding character and a character outside the alphabet
TamperChars == {B64Char(v, ChPlus, ChSlash) : v \in 0..63} \cup {ChPad, ChBang}

VARIABLES
    en_x,           \* the data of the last encrypt call
    en_c,           \* what that call returned
    en_t,           \* the encrypted_data of the last decrypt call
    en_flag,        \* its return_json
    en_out          \* what it returned or raised

en_vars == <<en_x, en_c, en_t, en_flag, en_out>>

ENInit ==
    /\ en_x = NoValue
    /\ en_c = <<>>
    /\ en_t = <<>>
    /\ en_flag = FALSE
    /\ en_out = NoValue

\* encrypt(x)
EncryptCall(x, iv) ==
    /\ en_x' = x
    /\ en_c' = Encrypt(x, iv)
    /\ en_t' = <<>>
    /\ en_flag' = FALSE
    /\ en_out' = NoValue

\* decrypt(c, return_json) of the ciphertext encrypt returned.  decrypt keeps
\* no state: the model follows one decrypt call per ciphertext, a second one
\* would only repeat it.
DecryptCall(return_json) ==
    /\ en_c # <<>>
    /\ en_out = NoValue
    /\ en_t' = en_c
    /\ en_flag' = return_json
    /\ en_out' = Decrypt(en_c, return_json)
    /\ UNCHANGED <<en_x, en_c>>

\* decrypt(c', return_json) of the ciphertext with character i replaced
DecryptTampered(i, ch, return_json) ==
    /\ en_c # <<>>
    /\ en_out = NoValue
    /\ i \in 1..Len(en_c)
    /\ ch # en_c[i]
    /\ LET tampered == [en_c EXCEPT ![i] = ch] IN
         /\ en_t' = tampered
         /\ en_out' = Decrypt(tampered, return_json)
    /\ en_flag' = return_json
    /\ UNCHANGED <<en_x, en_c>>

(***************************************************************************)
(*   TokenStorage (auth/token_storage.py): MemoryTokenStorage and          *)
(*   RedisTokenStorage, driven side by side with the same calls            *)
(***************************************************************************)

TSKeys == {"k1"}
TSKinds == {"session", "token"}
TSPayloads == {EmptyMap, MapOf(PyDatetime(<<ChOne>>))}
TSFPayloads == {MapOf(PyDatetime(<<ChOne>>))}
TSInstants == {0, 10, 3600}
\* ttl argument of store_token: None, 0, or a number of seconds
TokenTTLs == {NoInt, 0, 10}

PyNone == PyValue("NoneType", <<>>, <<>>)

\* blobs no store call wrote: the empty string, text that is not base64, and
\* the ciphertext of a text that is not JSON
CorruptBlobs == {<<>>, <<ChBang>>, Encrypt(PyStr(<<ChA>>), 7)}

VARIABLES
    ts_now,         \* the clock of the Redis server, seconds
    ts_mem,         \* MemoryTokenStorage._sessions and ._tokens: kind -> key -> blob
    ts_red,         \* the Redis keyspace: kind -> key -> [blob, exp], prefixes session: / token:
    ts_up,          \* the Redis server can be reached
    ts_client,      \* RedisTokenStorage._redis is not None
    ts_stored,      \* history: kind -> key -> when, and with which ttl, it was last stored
    ts_last         \* history: the call made in the last step, with both results

ts_vars == <<ts_now, ts_mem, ts_red, ts_up, ts_client, ts_stored, ts_last>>

TSCall(op, kind, key, up, mem, red) ==
    [op |-> op, kind |-> kind, key |-> key, up |-> up, mem |-> mem, red |-> red]

NoTSCall == TSCall("none", "none", "none", TRUE, NoValue, NoValue)

\* a Redis key is gone once its time to live has elapsed
RedisLive(kind, key, now) ==
    /\ key \in DOMAIN ts_red[kind]
    /\ (ts_red[kind][key].exp = NoInt \/ now < ts_red[kind][key].exp)

\* redis_client.get(key): the blob, or None
RedisGet(kind, key, now) ==
    IF RedisLive(kind, key, now) THEN ts_red[kind][key].blob ELSE <<>>

\* dict.get(key): the blob, or None
MemGet(kind, key) ==
    IF key \in DOMAIN ts_mem[kind] THEN ts_mem[kind][key] ELSE <<>>

\* get_session / get_token that hands the decryption error to its caller
GetBodyRaising(encrypted_data) ==
    IF encrypted_data = <<>> THEN PyNone
    ELSE Decrypt(encrypted_data, TRUE)

\* the body of get_session / get_token once the blob is read (lines 88-105,
\* 245-262): None for no blob, the parsed payload, None for any exception
GetBody(encrypted_data) ==
    IF encrypted_data = <<>> THEN PyNone
    ELSE LET data == Decrypt(encrypted_data, TRUE) IN
         IF data.t = "EncryptionError" THEN PyNone ELSE data

\* a shared backend that never sets a time to live, like the local backend
RedisExpiryNone(kind, ttl, now) == NoInt

\* the expiry setex / set gives a key: sessions 3600 s, tokens ttl if truthy
RedisExpiry(kind, ttl, now) ==
    IF kind = "session" THEN now + RedisSessionTTL
    ELSE IF ttl # NoInt /\ ttl # 0 THEN now + ttl
    ELSE NoInt

TSInit ==
    /\ ts_now = 0
    /\ ts_mem = [k \in TSKinds |-> EmptyDict]
    /\ ts_red = [k \in TSKinds |-> EmptyDict]
    /\ ts_up = TRUE
    /\ ts_client = FALSE
    /\ ts_stored = [k \in TSKinds |-> EmptyDict]
    /\ ts_last = NoTSCall

\* a store call that writes the serialised payload as it is
StoredBlobPlain(data, iv) == JsonDumps(data)

\* encrypted_data = self.encryption_manager.encrypt(data), lines 69, 119, 221, 287
StoredBlob(data, iv) == Encrypt(data, iv)

\* store_session(key, data) / store_token(key, data, ttl) on both backends
TSStore(kind, key, data, ttl, iv) ==
    LET encrypted_data == StoredBlob(data, iv) IN
    /\ kind = "session" => ttl = NoInt
    /\ ts_mem' = [ts_mem EXCEPT ![kind] = DictPut(@, key, encrypted_data)]
    /\ ts_red' = IF ts_up
                 THEN [ts_red EXCEPT ![kind] =
                         DictPut(@, key, [blob |-> encrypted_data,
                                          exp |-> RedisExpiry(kind, ttl, ts_now)])]
                 ELSE ts_red
    /\ ts_client' = TRUE
    /\ ts_last' = TSCall("store", kind, key, ts_up, PyNone,
                         IF ts_up THEN PyNone ELSE Raised("ConnectionError"))
    /\ ts_stored' = [ts_stored EXCEPT ![kind] = DictPut(@, key, [at |-> ts_now, ttl |-> ttl])]
    /\ UNCHANGED <<ts_now, ts_up>>

\* get_session(key) / get_token(key) on both backends
TSGet(kind, key) ==
    /\ ts_client' = TRUE
    /\ ts_last' = TSCall("get", kind, key, ts_up, GetBody(MemGet(kind, key)),
                         IF ts_up THEN GetBody(RedisGet(kind, key, ts_now)) ELSE PyNone)
    /\ UNCHANGED <<ts_now, ts_mem, ts_red, ts_up, ts_stored>>

\* delete_session(key) / delete_token(key) on both backends
TSDelete(kind, key) ==
    /\ ts_mem' = [ts_mem EXCEPT ![kind] = DictDel(@, key)]
    /\ ts_red' = IF ts_up THEN [ts_red EXCEPT ![kind] = DictDel(@, key)] ELSE ts_red
    /\ ts_client' = TRUE
    /\ ts_last' = TSCall("delete", kind, key, ts_up, PyNone, PyNone)
    /\ ts_stored' = [ts_stored EXCEPT ![kind] = DictDel(@, key)]
    /\ UNCHANGED <<ts_now, ts_up>>

\* time passes; the Redis server drops the keys whose time to live elapsed
TSTick ==
    /\ \E n \in TSInstants : n > ts_now /\ ts_now' = n
    /\ ts_red' = [k \in TSKinds |->
                    [key \in {q \in DOMAIN ts_red[k] : RedisLive(k, q, ts_now')} |->
                        ts_red[k][key]]]
    /\ ts_last' = NoTSCall
    /\ UNCHANGED <<ts_mem, ts_up, ts_client, ts_stored>>

\* the Redis server becomes unreachable, or reachable again
TSReach ==
    /\ ts_up' = ~ts_up
    /\ ts_last' = NoTSCall
    /\ UNCHANGED <<ts_now, ts_mem, ts_red, ts_client, ts_stored>>

\* a stored blob is damaged: in the Redis keyspace by whoever can write to
\* the server, in the local map by other code of the process
TSCorrupt(backend, kind, key, blob) ==
    /\ IF backend = "memory"
       THEN /\ key \in DOMAIN ts_mem[kind]
            /\ ts_mem' = [ts_mem EXCEPT ![kind][key] = blob]
            /\ UNCHANGED ts_red
       ELSE /\ RedisLive(kind, key, ts_now)
            /\ ts_red' = [ts_red EXCEPT ![kind][key].blob = blob]
            /\ UNCHANGED ts_mem
    /\ ts_last' = NoTSCall
    /\ UNCHANGED <<ts_now, ts_up, ts_client, ts_stored>>

(***************************************************************************)
(*   Bearer authentication of the protected endpoints: OAuthMiddleware     *)
(*   (middleware/oauth_middleware.py) and mcp_handler (main_oauth.py)      *)
(***************************************************************************)

\* a public and a protected path
PublicPaths == {"/health"}
Paths == PublicPaths \cup {"/mcp"}
Hosts == {"127.0.0.1", "203.0.113.9"}

\* the Authorization header: absent, or scheme, separator and credentials
NoHeader == [scheme |-> "", sep |-> "", token |-> ""]
AuthHeaders ==
    {NoHeader} \cup
    [scheme : {"Bearer", "bearer", "Basic"}, sep : {" ", ""}, token : {"", "mcp_1", "xyz"}]

VARIABLES
    mw_bypass,      \* OAuthMiddleware.bypass_auth (BYPASS_AUTH_FOR_TESTING)
    mw_req,         \* the last request and the handler that got it
    mw_resp,        \* the response to it
    mw_passed       \* the request reached call_next / the MCP bridge

mw_vars == <<mw_bypass, mw_req, mw_resp, mw_passed>>

Request(handler, path, host, header, known) ==
    [handler |-> handler, path |-> path, host |-> host, header |-> header, known |-> known]

NoRequest == Request("none", "", "", NoHeader, FALSE)

\* a response: status, the WWW-Authenticate header (scheme "" when there is
\* none) and the URL its JSON body names
HttpResponse(status, scheme, realm, error, body_url) ==
    [status |-> status, scheme |-> scheme, realm |-> realm, error |-> error,
     body_url |-> body_url]

NoHttpResponse == HttpResponse(0, "", "", "", "")

\* what the downstream handler answers
Downstream == HttpResponse(200, "", "", "", "")

\* _extract_bearer_token: re.match(r"Bearer\s+(.+)", auth_header, re.IGNORECASE)
ExtractBearerToken(h) ==
    IF h.scheme \in {"Bearer", "bearer"} /\ h.sep = " " /\ h.token # ""
    THEN h.token ELSE None

\* _validate_token: a token starting with "mcp_" makes it build the token
\* info from self.auth_server_url and self.server_url, attributes that are
\* never assigned; the AttributeError is caught and None returned.  Every
\* other token gives None as well.
ValidateToken(token) == None

\* _unauthorized_response(error)
UnauthorizedResponse(error) ==
    HttpResponse(401, "Bearer", "youtube-music", error, "resource_metadata_url")

MWInit ==
    /\ mw_bypass \in BOOLEAN
    /\ mw_req = NoRequest
    /\ mw_resp = NoHttpResponse
    /\ mw_passed = FALSE

\* OAuthMiddleware.dispatch(request, call_next)
Dispatch(path, host, header) ==
    /\ mw_req' = Request("dispatch", path, host, header, FALSE)
    /\ IF path \in PublicPaths \/ (mw_bypass /\ host = "127.0.0.1")
       THEN mw_passed' = TRUE /\ mw_resp' = Downstream
       ELSE LET token == ExtractBearerToken(header) IN
            IF token = None
            THEN mw_passed' = FALSE /\ mw_resp' = UnauthorizedResponse("missing_token")
            ELSE IF ValidateToken(token) = None
            THEN mw_passed' = FALSE /\ mw_resp' = UnauthorizedResponse("invalid_token")
            ELSE mw_passed' = TRUE /\ mw_resp' = Downstream
    /\ UNCHANGED mw_bypass

\* mcp_handler(request) of the routes /mcp and /; known: whether
\* oauth_handler.get_youtube_tokens finds tokens for the access token, which
\* it can only for a token that was issued, hence not for the empty one
McpHandler(host, header, known) ==
    /\ known => header.token # ""
    /\ mw_req' = Request("mcp_handler", "/mcp", host, header, known)
    /\ IF ~(header.scheme = "Bearer" /\ header.sep = " ")
       THEN /\ mw_passed' = FALSE
            /\ mw_resp' = HttpResponse(401, "Bearer", "YouTube Music MCP", "invalid_token",
                                       "/oauth/authorize")
       ELSE IF ~known
       THEN /\ mw_passed' = FALSE
            /\ mw_resp' = HttpResponse(401, "", "", "", "")
       ELSE /\ mw_passed' = TRUE
            /\ mw_resp' = Downstream
    /\ UNCHANGED mw_bypass

(***************************************************************************)
(*             OAuthToken.is_expired (models/auth.py) over time            *)
(***************************************************************************)

TKExpiresIns == {30, 60, 61, 3600}
TKInstants == {0, 1, 2, 3539, 3540, 3541}

VARIABLES
    tk_now,         \* datetime.utcnow(), seconds
    tk_token,       \* the token looked at
    tk_checked,     \* is_expired has been read since the last change
    tk_expired      \* what it gave

tk_vars == <<tk_now, tk_token, tk_checked, tk_expired>>

TKInit ==
    /\ tk_now = 0
    /\ tk_token = NoToken
    /\ tk_checked = FALSE
    /\ tk_expired = FALSE

\* OAuthToken(access_token=..., expires_in=..., scope=...): created_at is now
TKCreate(expires_in) ==
    /\ tk_token' = Token("at1", None, "Bearer", expires_in, "scope1", tk_now, NoInt, 0)
    /\ tk_checked' = FALSE
    /\ tk_expired' = FALSE
    /\ UNCHANGED tk_now

\* token.is_expired
TKIsExpired ==
    /\ tk_token # NoToken
    /\ tk_checked' = TRUE
    /\ tk_expired' = TokenIsExpired(tk_token, tk_now)
    /\ UNCHANGED <<tk_now, tk_token>>

TKTick ==
    /\ \E n \in TKInstants : n > tk_now /\ tk_now' = n
    /\ tk_checked' = FALSE
    /\ tk_expired' = FALSE
    /\ UNCHANGED tk_token

(***************************************************************************)
(*   SessionManager.start / stop and the expiry sweep                      *)
(*   _cleanup_expired_sessions (auth/session_manager.py lines 39-52,       *)
(*   265-300), next to the requests that create and read sessions          *)
(***************************************************************************)

SWSids == {"sidA", "sidB"}
\* a session touched at 0 is not expired at 3600 and is expired at 3601
SWInstants == {0, 3600, 3601}

VARIABLES
    sw_now,         \* datetime.utcnow(), seconds
    sw_backend,     \* which TokenStorage the manager was constructed with
    sw_cache,       \* SessionManager._sessions: dict sid -> UserSession
    sw_store,       \* TokenStorage sessions: dict sid -> [data, exp]
    sw_used,        \* session ids generated so far
    sw_pc,          \* the cleanup task: "none" (not created), "created" (not yet
                    \* run), "sleep" (line 271), "deleting" (inside the
                    \* delete_session of line 283), "cooldown" (line 300), "done"
    sw_expired,     \* expired_sessions from the one being deleted on
    sw_cancel,      \* task.cancel() was called and the task has not run since
    sw_stop,        \* stop(): "none", "awaiting" (line 50), "returned"
    sw_pass,        \* history: the current / last pass of the sweep
    sw_swept        \* history: the sessions the sweep took out of the cache, as
                    \* they were when it did, and when

sw_vars == <<sw_now, sw_backend, sw_cache, sw_store, sw_used, sw_pc, sw_expired,
             sw_cancel, sw_stop, sw_pass, sw_swept>>

\* listed: the pass's expired_sessions; attempted: those delete_session was
\* called for; failed: those whose storage delete failed; err: the pass raised
Pass(listed, attempted, failed, err) ==
    [listed |-> listed, attempted |-> attempted, failed |-> failed, err |-> err]
NoPass == Pass({}, {}, {}, FALSE)

\* delete_session(sid) for the sids of the sweep, lines 154-155: the cached
\* sessions among them leave the cache; nothing is assigned to the objects
SweptNow(swept, cache, sids, now) ==
    LET gone == sids \cap DOMAIN cache IN
    [k \in (DOMAIN swept) \cup gone |->
        IF k \in gone THEN [session |-> cache[k], at |-> now] ELSE swept[k]]

\* whether a storage call can fail (Redis: connection refused, timeout)
SWOutcomes == IF sw_backend = "redis" THEN {TRUE, FALSE} ELSE {TRUE}

SWStoreEntry(data, now) ==
    [data |-> data, exp |-> IF sw_backend = "redis" THEN now + RedisSessionTTL ELSE NoInt]

\* lines 277-279: the ids of the cached sessions with is_expired
ExpiredNone(cache, now) == {}
ExpiredSessions(cache, now) == {sid \in DOMAIN cache : IsExpired(cache[sid], now)}

\* the orders in which a dict can hold the ids (insertion order)
Orders(S) == {q \in UNION {[1..n -> S] : n \in {Cardinality(S)}} :
                 \A i, j \in 1..Cardinality(S) : i # j => q[i] # q[j]}

\* delete_session as the sweep sees it when the storage delete has succeeded
\* or failed: it catches every Exception and returns True / False (lines
\* 158-171), and so does RedisTokenStorage.delete_session (lines 276-281)
SweepDeleteRaising(ok) == [raised |-> ~ok, ret |-> ok]
SweepDelete(ok) == [raised |-> FALSE, ret |-> ok]

\* whether an "except Exception" clause catches asyncio.CancelledError: it is
\* a BaseException, so the cancellation passes the handlers of
\* delete_session and reaches "except asyncio.CancelledError" of the loop
ExceptionCatchesAll == TRUE
ExceptionCatchesCancelled == FALSE

SWInit ==
    /\ sw_now = 0
    /\ sw_backend \in Backends
    /\ sw_cache = EmptyDict
    /\ sw_store = EmptyDict
    /\ sw_used = {}
    /\ sw_pc = "none"
    /\ sw_expired = <<>>
    /\ sw_cancel = FALSE
    /\ sw_stop = "none"
    /\ sw_pass = NoPass
    /\ sw_swept = EmptyDict

\* with the in-memory backend nothing suspends inside a pass, so no request
\* runs while the sweep is deleting
SWFree == sw_pc # "deleting"

SWTaskFrame == UNCHANGED <<sw_now, sw_backend, sw_used, sw_stop>>
SWRequestFrame ==
    UNCHANGED <<sw_now, sw_backend, sw_pc, sw_expired, sw_cancel, sw_stop, sw_pass, sw_swept>>

\* start(), line 42
SWStart ==
    /\ sw_pc = "none" /\ sw_stop = "none"
    /\ sw_pc' = "created"
    /\ UNCHANGED <<sw_cache, sw_store, sw_expired, sw_cancel, sw_pass, sw_swept>>
    /\ SWTaskFrame

\* the task runs for the first time, up to asyncio.sleep(300); and line 300:
\* the cool-down is over, the loop goes round to asyncio.sleep(300)
SWSleep ==
    /\ sw_pc \in {"created", "cooldown"} /\ ~sw_cancel
    /\ sw_pc' = "sleep"
    /\ UNCHANGED <<sw_cache, sw_store, sw_expired, sw_cancel, sw_pass, sw_swept>>
    /\ SWTaskFrame

\* the end of a pass, lines 285-300: the log call, which can raise; the
\* except Exception clause then logs and sleeps 60 s
PassEnd(err) == IF err THEN "cooldown" ELSE "sleep"

\* asyncio.sleep(300) returns: lines 273-283 up to the first suspension
SWWake ==
    /\ sw_pc = "sleep" /\ ~sw_cancel
    /\ \E lst \in Orders(ExpiredSessions(sw_cache, sw_now)), err \in BOOLEAN :
         LET listed == {lst[i] : i \in 1..Len(lst)} IN
         IF lst = <<>>
         THEN /\ ~err
              /\ sw_pass' = NoPass
              /\ UNCHANGED <<sw_pc, sw_cache, sw_store, sw_expired, sw_swept>>
         ELSE IF sw_backend = "memory"
         THEN \* no delete suspends: the pass runs to its end
              /\ sw_cache' = [k \in DOMAIN sw_cache \ listed |-> sw_cache[k]]
              /\ sw_swept' = SweptNow(sw_swept, sw_cache, listed, sw_now)
              /\ sw_store' = [k \in DOMAIN sw_store \ listed |-> sw_store[k]]
              /\ sw_expired' = <<>>
              /\ sw_pass' = Pass(listed, listed, {}, err)
              /\ sw_pc' = PassEnd(err)
         ELSE \* delete_session(lst[1]): the cache entry goes, the task awaits Redis
              /\ ~err
              /\ sw_cache' = DictDel(sw_cache, Head(lst))
              /\ sw_swept' = SweptNow(sw_swept, sw_cache, {Head(lst)}, sw_now)
              /\ sw_expired' = lst
              /\ sw_pass' = Pass(listed, {Head(lst)}, {}, FALSE)
              /\ sw_pc' = "deleting"
              /\ UNCHANGED sw_store
    /\ UNCHANGED sw_cancel
    /\ SWTaskFrame

\* storage.delete_session answers; the pass goes on with the next id
SWDeleteResume ==
    /\ sw_pc = "deleting" /\ ~sw_cancel
    /\ \E ok \in SWOutcomes, err \in BOOLEAN :
         LET sid == Head(sw_expired)
             rest == Tail(sw_expired)
             out == SweepDelete(ok)
             failed == sw_pass.failed \cup (IF ok THEN {} ELSE {sid})
         IN
         /\ sw_store' = IF ok THEN DictDel(sw_store, sid) ELSE sw_store
         /\ IF out.raised
            THEN /\ ~err
                 /\ sw_pc' = "cooldown"
                 /\ sw_expired' = <<>>
                 /\ sw_pass' = [sw_pass EXCEPT !.failed = failed, !.err = TRUE]
                 /\ UNCHANGED <<sw_cache, sw_swept>>
            ELSE IF rest # <<>>
            THEN /\ ~err
                 /\ sw_cache' = DictDel(sw_cache, Head(rest))
                 /\ sw_swept' = SweptNow(sw_swept, sw_cache, {Head(rest)}, sw_now)
                 /\ sw_expired' = rest
                 /\ sw_pass' = [sw_pass EXCEPT !.failed = failed,
                                               !.attempted = @ \cup {Head(rest)}]
                 /\ UNCHANGED sw_pc
            ELSE /\ sw_pc' = PassEnd(err)
                 /\ sw_expired' = <<>>
                 /\ sw_pass' = [sw_pass EXCEPT !.failed = failed, !.err = err]
                 /\ UNCHANGED <<sw_cache, sw_swept>>
    /\ UNCHANGED sw_cancel
    /\ SWTaskFrame

\* stop(), lines 47-50: no task, or cancel() and await the task
SWStop ==
    /\ sw_stop = "none"
    /\ IF sw_pc = "none"
       THEN sw_stop' = "returned" /\ UNCHANGED sw_cancel
       ELSE sw_stop' = "awaiting" /\ sw_cancel' = TRUE
    /\ UNCHANGED <<sw_now, sw_backend, sw_used, sw_cache, sw_store, sw_pc, sw_expired, sw_pass,
                   sw_swept>>

\* the task is resumed after cancel(): CancelledError is raised at the await
\* it is suspended in.  At line 271 and inside delete_session the loop's
\* "except asyncio.CancelledError" breaks; at line 300 and before the first
\* run the error ends the task.  A Redis delete in flight may or may not
\* have reached the server
SWCancelled ==
    /\ sw_cancel
    /\ sw_pc \in {"created", "sleep", "deleting", "cooldown"}
    /\ sw_cancel' = FALSE
    /\ IF sw_pc = "deleting"
       THEN \E reached \in BOOLEAN :
              LET sid == Head(sw_expired)
                  rest == Tail(sw_expired) IN
              /\ sw_store' = IF reached THEN DictDel(sw_store, sid) ELSE sw_store
              /\ IF ExceptionCatchesCancelled
                 THEN \* delete_session returns False and the pass goes on
                      IF rest # <<>>
                      THEN /\ sw_cache' = DictDel(sw_cache, Head(rest))
                           /\ sw_swept' = SweptNow(sw_swept, sw_cache, {Head(rest)}, sw_now)
                           /\ sw_expired' = rest
                           /\ sw_pass' = [sw_pass EXCEPT !.attempted = @ \cup {Head(rest)}]
                           /\ UNCHANGED sw_pc
                      ELSE /\ sw_pc' = "sleep"
                           /\ sw_expired' = <<>>
                           /\ UNCHANGED <<sw_cache, sw_pass, sw_swept>>
                 ELSE /\ sw_pc' = "done"
                      /\ sw_expired' = <<>>
                      /\ UNCHANGED <<sw_cache, sw_pass, sw_swept>>
       ELSE /\ sw_pc' = "done"
            /\ UNCHANGED <<sw_cache, sw_store, sw_expired, sw_pass, sw_swept>>
    /\ SWTaskFrame

\* stop(), lines 50-52: the awaited task has ended
SWStopReturn ==
    /\ sw_stop = "awaiting" /\ sw_pc = "done"
    /\ sw_stop' = "returned"
    /\ UNCHANGED <<sw_now, sw_backend, sw_used, sw_cache, sw_store, sw_pc, sw_expired,
                   sw_cancel, sw_pass, sw_swept>>

\* create_session(): a new session, cached and stored
SWCreate(sid, ok) ==
    /\ SWFree \/ sw_backend = "redis"
    /\ sid \notin sw_used
    /\ sw_used' = sw_used \cup {sid}
    /\ sw_cache' = DictPut(sw_cache, sid, CreateNew(sid, sw_now))
    /\ sw_store' = IF ok THEN DictPut(sw_store, sid, SWStoreEntry(CreateNew(sid, sw_now), sw_now))
                   ELSE sw_store
    /\ SWRequestFrame

\* get_session(sid) of a cached session, lines 94-103
SWGet(sid, ok) ==
    /\ SWFree \/ sw_backend = "redis"
    /\ sid \in DOMAIN sw_cache
    /\ IF ~IsExpired(sw_cache[sid], sw_now)
       THEN LET s == UpdateAccess(sw_cache[sid], sw_now) IN
            /\ sw_cache' = DictPut(sw_cache, sid, s)
            /\ sw_store' = IF ok THEN DictPut(sw_store, sid, SWStoreEntry(s, sw_now))
                           ELSE sw_store
       ELSE /\ sw_cache' = DictDel(sw_cache, sid)
            /\ sw_store' = IF ok THEN DictDel(sw_store, sid) ELSE sw_store
    /\ UNCHANGED sw_used
    /\ SWRequestFrame

\* update_session(session) with the cached object of sid, lines 134-135 and
\* _store_session: update_access, the cache entry, the storage write
SWUpdate(sid, ok) ==
    /\ SWFree \/ sw_backend = "redis"
    /\ sid \in DOMAIN sw_cache
    /\ LET s == UpdateAccess(sw_cache[sid], sw_now) IN
       /\ sw_cache' = DictPut(sw_cache, sid, s)
       /\ sw_store' = IF ok THEN DictPut(sw_store, sid, SWStoreEntry(s, sw_now))
                      ELSE sw_store
    /\ UNCHANGED sw_used
    /\ SWRequestFrame

\* time passes; Redis drops the keys whose TTL has run out
SWTick ==
    /\ SWFree \/ sw_backend = "redis"
    /\ \E i \in SWInstants :
         /\ i > sw_now
         /\ sw_now' = i
         /\ sw_store' = [k \in {x \in DOMAIN sw_store : sw_store[x].exp = NoInt
                                                         \/ i < sw_store[x].exp}
                           |-> sw_store[k]]
    /\ UNCHANGED <<sw_backend, sw_cache, sw_used, sw_pc, sw_expired, sw_cancel, sw_stop,
                   sw_pass, sw_swept>>

(***************************************************************************)
(*   YTMusicClient (ytmusic/client.py) over the RateLimiter: the cached    *)
(*   client, the check_rate_limit of get_authenticated_client, and         *)
(*   RateLimiter.wait_if_needed before every call of the external API      *)
(***************************************************************************)

YCSessions == {"s1"}
MaxApiCalls == 3

VARIABLES
    yc_clients,     \* self._clients: the sessions with a cached YTMusic client
    yc_task,        \* per caller: where it is inside a client method
    yc_calls,       \* history: per session, the times of the external API calls
    yc_wait         \* history: the wait_if_needed call that returned last

yc_vars == <<yc_clients, yc_task, yc_calls, yc_wait>>

\* stage : "" (in no client method), "gate" (check_rate_limit has returned
\*         True, wait_if_needed comes next), "backoff" (inside
\*         check_rate_limit's sleep), "wait" (inside wait_if_needed)
\* slept : the seconds wait_if_needed has passed to asyncio.sleep so far
\* needB, needM : at the call of wait_if_needed, the seconds until the oldest
\*         admitted call of a full burst / minute window is a window old
\*         (0: the window has room)
ClientTask(stage, slept, needB, needM) ==
    [stage |-> stage, slept |-> slept, needB |-> needB, needM |-> needM]
NoClientTask == ClientTask("", 0, 0, 0)

\* at: the instant of the return; seen: the calls of the session admitted
\* by then
WaitRecord(sess, call_time, slept, needB, needM, at, seen) ==
    [sess |-> sess, call_time |-> call_time, slept |-> slept, needB |-> needB,
     needM |-> needM, at |-> at, seen |-> seen]
NoWait == WaitRecord(None, 0, 0, 0, 0, 0, 0)

YCInit ==
    /\ yc_clients = {}
    /\ yc_task = [t \in RLTasks |-> NoClientTask]
    /\ yc_calls = [s \in RLSessions |-> <<>>]
    /\ yc_wait = NoWait

\* history helper: what the admitted calls of s say at time ct about a
\* window with the given limit
Need(s, ct, limit, window) ==
    LET w == SelectSeq(admitted[s], LAMBDA x : x >= ct - window /\ x <= ct) IN
    IF Len(w) >= limit /\ window - (ct - w[1]) > 0 THEN window - (ct - w[1]) ELSE 0

\* wait_if_needed, lines 143-159 and 162-179: one window's part.  The deque
\* is pruned only if it is at the limit, with the cutoff of the call time ct;
\* wait: the seconds to sleep, 0 for no sleep
WaitFor(d, s, ct, limit, window) ==
    LET q0 == DequeOf(d, s)
        q == IF Len(q0) >= limit THEN PopOld(q0, ct - window) ELSE q0
        w == IF Len(q) >= limit THEN window - (ct - q[1]) ELSE 0
    IN  [d |-> DictPut(d, s, q), wait |-> IF w > 0 THEN w ELSE 0]

\* the rate limiter's state that neither wait_if_needed nor a client touches
YCLimiterFrame ==
    UNCHANGED <<rl_now, burst_limit, requests_per_minute, requests_per_hour,
                hour_requests, violation_counts, last_cleanup, rl_last, admitted>>

\* wait_if_needed returns (line 179); the client method then calls the
\* external API (client.search and the like, lines 137-143 of client.py)
WaitReturn(t, s, ct, c) ==
    /\ rl_task' = [rl_task EXCEPT ![t] = IdleTask]
    /\ yc_task' = [yc_task EXCEPT ![t] = NoClientTask]
    /\ yc_wait' = WaitRecord(s, ct, c.slept, c.needB, c.needM, rl_now, Len(admitted[s]))
    /\ yc_calls' = [yc_calls EXCEPT ![s] = Append(@, rl_now)]

\* wait_if_needed, lines 161-179: the minute part, run at the present
\* instant with the current_time ct of the call
MinutePart(t, s, ct, c) ==
    LET mp == WaitFor(minute_requests, s, ct, requests_per_minute, MinuteWindow) IN
    /\ minute_requests' = mp.d
    /\ IF mp.wait > 0
       THEN /\ rl_task' = [rl_task EXCEPT ![t] =
                   [pc |-> "wait_minute", sess |-> s, call_time |-> ct,
                    wake |-> rl_now + mp.wait]]
            /\ yc_task' = [yc_task EXCEPT ![t] =
                   [c EXCEPT !.stage = "wait", !.slept = c.slept + mp.wait]]
            /\ UNCHANGED <<yc_wait, yc_calls>>
       ELSE WaitReturn(t, s, ct, c)

\* wait_if_needed(s) from its call, lines 140-159, up to the first sleep
WaitIfNeeded(t, s) ==
    LET ct == rl_now
        bp == WaitFor(burst_requests, s, ct, burst_limit, BurstWindow)
        c == ClientTask("wait", bp.wait,
                        Need(s, ct, burst_limit, BurstWindow),
                        Need(s, ct, requests_per_minute, MinuteWindow))
    IN
    /\ burst_requests' = bp.d
    /\ IF bp.wait > 0
       THEN /\ rl_task' = [rl_task EXCEPT ![t] =
                   [pc |-> "wait_burst", sess |-> s, call_time |-> ct,
                    wake |-> ct + bp.wait]]
            /\ yc_task' = [yc_task EXCEPT ![t] = c]
            /\ UNCHANGED <<minute_requests, yc_wait, yc_calls>>
       ELSE MinutePart(t, s, ct, c)
    /\ YCLimiterFrame

\* no caller is between check_rate_limit and wait_if_needed, which follow
\* each other without a suspension
NoGate == \A u \in RLTasks : yc_task[u].stage # "gate"

\* a client method (search_music, ...) is called for session s: lines
\* 66-76 of get_authenticated_client, then wait_if_needed
ClientCall(t, s) ==
    /\ NoGate
    /\ yc_task[t].stage = ""
    /\ rl_task[t].pc = "idle"
    /\ \A u \in RLTasks : rl_task[u].pc = "idle" => u >= t
    /\ Len(yc_calls[s]) + Cardinality({u \in RLTasks : yc_task[u].stage # ""}) < MaxApiCalls
    /\ IF s \in yc_clients
       THEN /\ WaitIfNeeded(t, s)
            /\ UNCHANGED yc_clients
       ELSE /\ CheckRateLimit(t, s)
            /\ yc_clients' = IF rl_last'.outcome = "admitted"
                             THEN yc_clients \cup {s} ELSE yc_clients
            /\ yc_task' = [yc_task EXCEPT ![t] =
                   IF rl_last'.outcome = "admitted" THEN ClientTask("gate", 0, 0, 0)
                   ELSE IF rl_last'.outcome = "burst_sleeping"
                        THEN ClientTask("backoff", 0, 0, 0)
                   ELSE NoClientTask]
            /\ UNCHANGED <<yc_wait, yc_calls>>

\* get_authenticated_client has returned the new client: wait_if_needed
ClientGate(t) ==
    /\ yc_task[t].stage = "gate"
    /\ \E s \in YCSessions : s \in yc_clients /\ WaitIfNeeded(t, s)
    /\ UNCHANGED yc_clients

\* the backoff sleep of check_rate_limit is over: RateLimitExceeded, which
\* get_authenticated_client turns into YTMusicError (lines 98-105)
ClientBackoffRaise(t) ==
    /\ NoGate
    /\ yc_task[t].stage = "backoff"
    /\ BackoffRaise(t)
    /\ yc_task' = [yc_task EXCEPT ![t] = NoClientTask]
    /\ UNCHANGED <<yc_clients, yc_wait, yc_calls>>

\* the burst sleep of wait_if_needed (line 159) is over: the minute part
WaitBurstOver(t) ==
    /\ NoGate
    /\ rl_task[t].pc = "wait_burst"
    /\ rl_now >= rl_task[t].wake
    /\ MinutePart(t, rl_task[t].sess, rl_task[t].call_time, yc_task[t])
    /\ UNCHANGED <<burst_requests, yc_clients>>
    /\ YCLimiterFrame

\* the minute sleep of wait_if_needed (line 179) is over
WaitMinuteOver(t) ==
    /\ NoGate
    /\ rl_task[t].pc = "wait_minute"
    /\ rl_now >= rl_task[t].wake
    /\ WaitReturn(t, rl_task[t].sess, rl_task[t].call_time, yc_task[t])
    /\ UNCHANGED <<burst_requests, minute_requests, yc_clients>>
    /\ YCLimiterFrame

\* clear_client_cache(s), lines 396-407: the next call builds a new client
ClearClientCache(s) ==
    /\ NoGate
    /\ s \in yc_clients
    /\ yc_clients' = yc_clients \ {s}
    /\ UNCHANGED <<rl_vars, yc_task, yc_wait, yc_calls>>

\* the callers asleep inside wait_if_needed
Waiting == {t \in RLTasks : rl_task[t].pc \in {"wait_burst", "wait_minute"}}

\* time passes, to the next instant studied or to the end of a sleep of
\* wait_if_needed: asyncio.sleep returns when its delay is over, so the clock
\* passes no such end while the sleeper has not run
YCTick ==
    /\ NoGate
    /\ \A t \in Waiting : rl_task[t].wake > rl_now
    /\ \E i \in RLInstants \cup {rl_task[t].wake : t \in Waiting} :
          /\ i > rl_now
          /\ \A t \in Waiting : i <= rl_task[t].wake
          /\ rl_now' = i
    /\ rl_last' = NoCall
    /\ UNCHANGED <<burst_limit, requests_per_minute, requests_per_hour,
                   burst_requests, minute_requests, hour_requests, violation_counts,
                   last_cleanup, rl_task, admitted>>
    /\ UNCHANGED yc_vars

(***************************************************************************)
(*   YouTubeMusicOAuthServer (oauth_server_implementation.py): the         *)
(*   authorization handler and the token handler over oauth_sessions       *)
(***************************************************************************)

\* the state values secrets.token_urlsafe(32) yields, in this order (it
\* yields no value twice), and the state values a token request can carry
OSStates == <<"st1", "st2">>
OSRequestStates == {"st1", "st2", "forged"}
OSRedirects == {None, "https://client/cb"}
OSCodes == {"code1", "code2"}
DefaultRedirect == "http://localhost:3000/oauth/callback"
MaxExchanges == 3

VARIABLES
    os_sessions,    \* self.oauth_sessions: dict state -> OAuthSession
    os_issued,      \* history: how many states handle_auth_request has issued
    os_tokens,      \* history: per state, the token responses given for it
    os_last         \* history: the token request handled last

os_vars == <<os_sessions, os_issued, os_tokens, os_last>>

\* OAuthSession (lines 16-23)
OAuthSession(state, redirect_uri, access_token, refresh_token) ==
    [state |-> state, code_verifier |-> "verifier-" \o state, redirect_uri |-> redirect_uri,
     access_token |-> access_token, refresh_token |-> refresh_token]

\* result: "token" (the response of lines 123-127) or "ValueError" (line 101);
\* before: the token responses given for the state before this request
TokenRequest(state, result, before) == [state |-> state, result |-> result, before |-> before]
NoTokenRequest == TokenRequest(None, "none", 0)

OSInit ==
    /\ os_sessions = EmptyDict
    /\ os_issued = 0
    /\ os_tokens = [st \in OSRequestStates |-> 0]
    /\ os_last = NoTokenRequest

\* handle_auth_request, lines 49-90: a new state and verifier, stored under
\* the state
HandleAuthRequest(redirect) ==
    /\ os_issued < Len(OSStates)
    /\ LET state == OSStates[os_issued + 1] IN
       os_sessions' = DictPut(os_sessions, state,
                              OAuthSession(state,
                                           IF redirect = None THEN DefaultRedirect ELSE redirect,
                                           None, None))
    /\ os_issued' = os_issued + 1
    /\ UNCHANGED <<os_tokens, os_last>>

\* handle_token_exchange, lines 93-127
HandleTokenExchange(code, state) ==
    /\ os_tokens[state] < MaxExchanges
    /\ IF state \notin DOMAIN os_sessions
       THEN /\ os_last' = TokenRequest(state, "ValueError", os_tokens[state])
            /\ UNCHANGED <<os_sessions, os_tokens>>
       ELSE /\ os_sessions' = [os_sessions EXCEPT ![state] =
                                  [@ EXCEPT !.access_token = "ya29.example_access_token",
                                            !.refresh_token = "1//example_refresh_token"]]
            /\ os_tokens' = [os_tokens EXCEPT ![state] = @ + 1]
            /\ os_last' = TokenRequest(state, "token", os_tokens[state])
    /\ UNCHANGED os_issued

(***************************************************************************)
(*   RateLimiter.get_rate_limit_status and get_stats                       *)
(*   (ytmusic/rate_limiter.py lines 271-335), next to check_rate_limit     *)
(***************************************************************************)

\* the session that makes requests; the queries name any session
RQCaller == "s1"

VARIABLES
    rq_last         \* history: the query answered last

rq_vars == <<rq_last>>

\* used: the burst / minute / hour counts a status reports; violations: the
\* violations (status) or total_violations (stats); active: the
\* active_sessions of get_stats (0 in a status, which reports none)
Query(op, sess, used, violations, active) ==
    [op |-> op, sess |-> sess, used |-> used, violations |-> violations, active |-> active]
NoQuery == Query("none", None, <<0, 0, 0>>, 0, 0)

RQInit == rq_last = NoQuery

\* len([req for req in q if req >= now - window])
UsedIn(q, now, window) == Len(SelectSeq(q, LAMBDA x : x >= now - window))

RECURSIVE SumCounts(_)
SumCounts(v) ==
    IF DOMAIN v = {} THEN 0
    ELSE LET k == CHOOSE x \in DOMAIN v : TRUE IN
         v[k] + SumCounts([x \in (DOMAIN v) \ {k} |-> v[x]])

\* a read of a defaultdict(deque) by d[s]: a missing key is inserted with an
\* empty deque
DefaultRead(d, s) == DictPut(d, s, DequeOf(d, s))

\* get_rate_limit_status(s), lines 281-317
GetRateLimitStatus(s) ==
    /\ burst_requests' = DefaultRead(burst_requests, s)
    /\ minute_requests' = DefaultRead(minute_requests, s)
    /\ hour_requests' = DefaultRead(hour_requests, s)
    /\ rq_last' = Query("status", s,
                        <<UsedIn(DequeOf(burst_requests, s), rl_now, BurstWindow),
                          UsedIn(DequeOf(minute_requests, s), rl_now, MinuteWindow),
                          UsedIn(DequeOf(hour_requests, s), rl_now, HourWindow)>>,
                        CountOf(violation_counts, s), 0)
    /\ UNCHANGED <<rl_now, burst_limit, requests_per_minute, requests_per_hour,
                   violation_counts, last_cleanup, rl_task, rl_last, admitted>>

\* get_stats(), lines 326-335
GetStats ==
    /\ rq_last' = Query("stats", None, <<0, 0, 0>>, SumCounts(violation_counts),
                        Cardinality(DOMAIN minute_requests))
    /\ UNCHANGED rl_vars

(***************************************************************************)
(*   SessionManager.start / stop called any number of times                *)
(*   (auth/session_manager.py lines 39-52) and the cleanup tasks they      *)
(*   create and cancel (lines 265-300)                                     *)
(***************************************************************************)

MaxStarts == 2
MaxStops == 2

STTasks == 1..MaxStarts

VARIABLES
    st_task,        \* per cleanup task created: "none" (not created), "created"
                    \* (not yet run), "sleep" (line 271), "deleting" (line 283),
                    \* "cooldown" (line 300), "done"
    st_current,     \* self._cleanup_task: 0 for None, or the task
    st_cancel,      \* the tasks cancel() was called on that have not run since
    st_stop,        \* the stop() call: "none", "awaiting" (line 50), "returned"
    st_awaited,     \* the task stop() awaits
    st_starts,      \* start() calls so far
    st_stops        \* stop() calls so far

st_vars == <<st_task, st_current, st_cancel, st_stop, st_awaited, st_starts, st_stops>>

STInit ==
    /\ st_task = [i \in STTasks |-> "none"]
    /\ st_current = 0
    /\ st_cancel = {}
    /\ st_stop = "none"
    /\ st_awaited = 0
    /\ st_starts = 0
    /\ st_stops = 0

\* start(), line 42: a new task, whose handle replaces the one held
STStart ==
    /\ st_starts < MaxStarts
    /\ st_starts' = st_starts + 1
    /\ st_task' = [st_task EXCEPT ![st_starts + 1] = "created"]
    /\ st_current' = st_starts + 1
    /\ st_stop' = IF st_stop = "returned" THEN "none" ELSE st_stop
    /\ UNCHANGED <<st_cancel, st_awaited, st_stops>>

\* stop(), lines 47-52: nothing without a task; cancel() of a task that has
\* ended does nothing and the await of it returns at once
STStop ==
    /\ st_stop # "awaiting"
    /\ st_stops < MaxStops
    /\ st_stops' = st_stops + 1
    /\ IF st_current = 0 \/ st_task[st_current] = "done"
       THEN /\ st_stop' = "returned"
            /\ UNCHANGED <<st_cancel, st_awaited>>
       ELSE /\ st_cancel' = st_cancel \cup {st_current}
            /\ st_awaited' = st_current
            /\ st_stop' = "awaiting"
    /\ UNCHANGED <<st_task, st_current, st_starts>>

\* a cleanup task runs from one await to the next, lines 269-300
STRun(i) ==
    /\ i \notin st_cancel
    /\ \/ st_task[i] \in {"created", "cooldown"} /\ st_task' = [st_task EXCEPT ![i] = "sleep"]
       \/ st_task[i] = "sleep" /\ st_task' = [st_task EXCEPT ![i] = "deleting"]
       \/ st_task[i] = "deleting"
          /\ \E pc \in {"sleep", "cooldown"} : st_task' = [st_task EXCEPT ![i] = pc]
    /\ UNCHANGED <<st_current, st_cancel, st_stop, st_awaited, st_starts, st_stops>>

\* a cancelled task is resumed: CancelledError at its await ends it (lines
\* 291-293, or out of the handler of line 300)
STCancelled(i) ==
    /\ i \in st_cancel
    /\ st_task[i] \in {"created", "sleep", "deleting", "cooldown"}
    /\ st_cancel' = st_cancel \ {i}
    /\ st_task' = [st_task EXCEPT ![i] =
                      IF st_task[i] = "deleting" /\ ExceptionCatchesCancelled
                      THEN "sleep" ELSE "done"]
    /\ UNCHANGED <<st_current, st_stop, st_awaited, st_starts, st_stops>>

\* stop(), lines 50-52: the awaited task has ended
STStopReturn ==
    /\ st_stop = "awaiting"
    /\ st_task[st_awaited] = "done"
    /\ st_stop' = "returned"
    /\ UNCHANGED <<st_task, st_current, st_cancel, st_awaited, st_starts, st_stops>>

(***************************************************************************)
(*                            Specifications                               *)
(***************************************************************************)

vars == <<rl_vars, oa_vars, sm_vars, px_vars, en_vars, ts_vars, mw_vars, tk_vars, sw_vars, rb_vars, yc_vars, os_vars, rq_vars, st_vars>>

\* what a step of one component leaves alone: the other components
RLRest == <<oa_vars, sm_vars, px_vars, en_vars, ts_vars, mw_vars, tk_vars, sw_vars, rb_vars, yc_vars, os_vars, rq_vars, st_vars>>
OARest == <<rl_vars, sm_vars, px_vars, en_vars, ts_vars, mw_vars, tk_vars, sw_vars, rb_vars, yc_vars, os_vars, rq_vars, st_vars>>
SMRest == <<rl_vars, oa_vars, px_vars, en_vars, ts_vars, mw_vars, tk_vars, sw_vars, rb_vars, yc_vars, os_vars, rq_vars, st_vars>>
PXRest == <<rl_vars, oa_vars, sm_vars, en_vars, ts_vars, mw_vars, tk_vars, sw_vars, rb_vars, yc_vars, os_vars, rq_vars, st_vars>>
ENRest == <<rl_vars, oa_vars, sm_vars, px_vars, ts_vars, mw_vars, tk_vars, sw_vars, rb_vars, yc_vars, os_vars, rq_vars, st_vars>>
TSRest == <<rl_vars, oa_vars, sm_vars, px_vars, en_vars, mw_vars, tk_vars, sw_vars, rb_vars, yc_vars, os_vars, rq_vars, st_vars>>
MWRest == <<rl_vars, oa_vars, sm_vars, px_vars, en_vars, ts_vars, tk_vars, sw_vars, rb_vars, yc_vars, os_vars, rq_vars, st_vars>>
TKRest == <<rl_vars, oa_vars, sm_vars, px_vars, en_vars, ts_vars, mw_vars, sw_vars, rb_vars, yc_vars, os_vars, rq_vars, st_vars>>
SWRest == <<rl_vars, oa_vars, sm_vars, px_vars, en_vars, ts_vars, mw_vars, tk_vars, rb_vars, yc_vars, os_vars, rq_vars, st_vars>>
RBRest == <<rl_vars, oa_vars, sm_vars, px_vars, en_vars, ts_vars, mw_vars, tk_vars, sw_vars, yc_vars, os_vars, rq_vars, st_vars>>
YCRest == <<rl_vars, oa_vars, sm_vars, px_vars, en_vars, ts_vars, mw_vars, tk_vars, sw_vars, rb_vars, os_vars, rq_vars, st_vars>>
OSRest == <<rl_vars, oa_vars, sm_vars, px_vars, en_vars, ts_vars, mw_vars, tk_vars, sw_vars, rb_vars, yc_vars, rq_vars, st_vars>>
RQRest == <<rl_vars, oa_vars, sm_vars, px_vars, en_vars, ts_vars, mw_vars, tk_vars, sw_vars, rb_vars, yc_vars, os_vars, st_vars>>
STRest == <<rl_vars, oa_vars, sm_vars, px_vars, en_vars, ts_vars, mw_vars, tk_vars, sw_vars, rb_vars, yc_vars, os_vars, rq_vars>>

\* a component that takes no part in a specification stays as constructed
RLQuiet == RLInit /\ burst_limit = 1
OAQuiet == OAInit
SMQuiet == SMInit /\ sm_backend = "memory"
PXQuiet == PXInit
ENQuiet == ENInit
TSQuiet == TSInit
MWQuiet == MWInit /\ mw_bypass = FALSE
TKQuiet == TKInit
SWQuiet == SWInit /\ sw_backend = "memory"
RBQuiet == rl_maxv = MaxViolations
YCQuiet == YCInit
OSQuiet == OSInit
RQQuiet == RQInit
STQuiet == STInit

RLNext ==
    \/ \E t \in RLTasks, s \in RLSessions : CheckRateLimit(t, s) /\ UNCHANGED RLRest
    \/ \E t \in RLTasks : BackoffRaise(t) /\ UNCHANGED RLRest
    \/ RLTick /\ UNCHANGED RLRest

InitRL == RLInit /\ OAQuiet /\ SMQuiet /\ PXQuiet /\ ENQuiet /\ TSQuiet /\ MWQuiet /\ TKQuiet /\ SWQuiet /\ RBQuiet /\ YCQuiet /\ OSQuiet /\ RQQuiet /\ STQuiet

SpecRL == InitRL /\ [][RLNext]_vars

\* what goes on without a new call: the clock, and the sleepers that wake
RLTimeNext ==
    \/ \E t \in RLTasks : BackoffRaise(t) /\ UNCHANGED RLRest
    \/ RLTick /\ UNCHANGED RLRest

\* time passes and sleepers wake; whether a client calls again is up to the
\* client
FairRL == SpecRL /\ WF_vars(RLTimeNext)

OANext ==
    \/ RefreshStart /\ UNCHANGED OARest
    \/ RefreshResponse /\ UNCHANGED OARest
    \/ OATick /\ UNCHANGED OARest

InitOA == OAInit /\ RLQuiet /\ SMQuiet /\ PXQuiet /\ ENQuiet /\ TSQuiet /\ MWQuiet /\ TKQuiet /\ SWQuiet /\ RBQuiet /\ YCQuiet /\ OSQuiet /\ RQQuiet /\ STQuiet

SpecOA == InitOA /\ [][OANext]_vars

SMNext ==
    \/ \E t \in SMTasks : CreateSession(t) /\ UNCHANGED SMRest
    \/ \E t \in SMTasks, sid \in Sids : GetSession(t, sid) /\ UNCHANGED SMRest
    \/ \E t \in SMTasks, sid \in Sids : AuthenticateSession(t, sid) /\ UNCHANGED SMRest
    \/ \E t \in SMTasks, sid \in Sids, m \in SMMaxRequests :
          SMCheckRateLimit(t, sid, m) /\ UNCHANGED SMRest
    \/ \E t \in SMTasks, sid \in Sids : UpdateSession(t, sid) /\ UNCHANGED SMRest
    \/ \E t \in SMTasks, sid \in Sids : DeleteSession(t, sid) /\ UNCHANGED SMRest
    \/ \E t \in SMTasks, ok \in StorageOutcomes :
          ResumeLoad(t, ok) /\ UNCHANGED SMRest
    \/ \E t \in SMTasks, ok \in StorageOutcomes :
          ResumeStore(t, ok) /\ UNCHANGED SMRest
    \/ \E t \in SMTasks, ok \in StorageOutcomes :
          ResumeDelete(t, ok) /\ UNCHANGED SMRest
    \/ SMTick /\ UNCHANGED SMRest
    \/ SMRestart /\ UNCHANGED SMRest

InitSM == SMInit /\ RLQuiet /\ OAQuiet /\ PXQuiet /\ ENQuiet /\ TSQuiet /\ MWQuiet /\ TKQuiet /\ SWQuiet /\ RBQuiet /\ YCQuiet /\ OSQuiet /\ RQQuiet /\ STQuiet

SpecSM == InitSM /\ [][SMNext]_vars

PXNext ==
    \/ \E op \in {"exchange", "revoke"} : PXStart(op) /\ UNCHANGED PXRest
    \/ ExchangeResponse /\ UNCHANGED PXRest
    \/ RevokeResponse /\ UNCHANGED PXRest
    \/ PXTick /\ UNCHANGED PXRest

InitPX == PXInit /\ RLQuiet /\ OAQuiet /\ SMQuiet /\ ENQuiet /\ TSQuiet /\ MWQuiet /\ TKQuiet /\ SWQuiet /\ RBQuiet /\ YCQuiet /\ OSQuiet /\ RQQuiet /\ STQuiet

SpecPX == InitPX /\ [][PXNext]_vars

ENNext ==
    \/ \E x \in Payloads, iv \in IVs : EncryptCall(x, iv) /\ UNCHANGED ENRest
    \/ \E f \in BOOLEAN : DecryptCall(f) /\ UNCHANGED ENRest
    \/ \E i \in 1..Len(en_c), ch \in TamperChars, f \in BOOLEAN :
          DecryptTampered(i, ch, f) /\ UNCHANGED ENRest

InitEN == ENInit /\ RLQuiet /\ OAQuiet /\ SMQuiet /\ PXQuiet /\ TSQuiet /\ MWQuiet /\ TKQuiet /\ SWQuiet /\ RBQuiet /\ YCQuiet /\ OSQuiet /\ RQQuiet /\ STQuiet

SpecEN == InitEN /\ [][ENNext]_vars

TSNext ==
    \/ \E kind \in TSKinds, key \in TSKeys, data \in TSPayloads, ttl \in TokenTTLs, iv \in IVs :
          TSStore(kind, key, data, ttl, iv) /\ UNCHANGED TSRest
    \/ \E kind \in TSKinds, key \in TSKeys : TSGet(kind, key) /\ UNCHANGED TSRest
    \/ \E kind \in TSKinds, key \in TSKeys : TSDelete(kind, key) /\ UNCHANGED TSRest
    \/ TSTick /\ UNCHANGED TSRest

InitTS == TSInit /\ RLQuiet /\ OAQuiet /\ SMQuiet /\ PXQuiet /\ ENQuiet /\ MWQuiet /\ TKQuiet /\ SWQuiet /\ RBQuiet /\ YCQuiet /\ OSQuiet /\ RQQuiet /\ STQuiet

\* both backends with the Redis server reachable and the stored blobs intact
SpecTS == InitTS /\ [][TSNext]_vars

TSFNext ==
    \/ \E kind \in TSKinds, key \in TSKeys, data \in TSFPayloads, iv \in IVs :
          TSStore(kind, key, data, NoInt, iv) /\ UNCHANGED TSRest
    \/ \E kind \in TSKinds, key \in TSKeys : TSGet(kind, key) /\ UNCHANGED TSRest
    \/ \E kind \in TSKinds, key \in TSKeys : TSDelete(kind, key) /\ UNCHANGED TSRest
    \/ TSReach /\ UNCHANGED TSRest
    \/ \E backend \in Backends, kind \in TSKinds, key \in TSKeys, blob \in CorruptBlobs :
          TSCorrupt(backend, kind, key, blob) /\ UNCHANGED TSRest

InitTSF == TSInit /\ RLQuiet /\ OAQuiet /\ SMQuiet /\ PXQuiet /\ ENQuiet /\ MWQuiet /\ TKQuiet /\ SWQuiet /\ RBQuiet /\ YCQuiet /\ OSQuiet /\ RQQuiet /\ STQuiet

\* the same calls with an unreliable Redis server and damaged blobs
SpecTSF == InitTSF /\ [][TSFNext]_vars

MWNext ==
    \/ \E path \in Paths, host \in Hosts, header \in AuthHeaders :
          Dispatch(path, host, header) /\ UNCHANGED MWRest
    \/ \E host \in Hosts, header \in AuthHeaders, known \in BOOLEAN :
          McpHandler(host, header, known) /\ UNCHANGED MWRest

InitMW == MWInit /\ RLQuiet /\ OAQuiet /\ SMQuiet /\ PXQuiet /\ ENQuiet /\ TSQuiet /\ TKQuiet /\ SWQuiet /\ RBQuiet /\ YCQuiet /\ OSQuiet /\ RQQuiet /\ STQuiet

SpecMW == InitMW /\ [][MWNext]_vars

TKNext ==
    \/ \E expires_in \in TKExpiresIns : TKCreate(expires_in) /\ UNCHANGED TKRest
    \/ TKIsExpired /\ UNCHANGED TKRest
    \/ TKTick /\ UNCHANGED TKRest

InitTK == TKInit /\ RLQuiet /\ OAQuiet /\ SMQuiet /\ PXQuiet /\ ENQuiet /\ TSQuiet /\ MWQuiet /\ SWQuiet /\ RBQuiet /\ YCQuiet /\ OSQuiet /\ RQQuiet /\ STQuiet

SpecTK == InitTK /\ [][TKNext]_vars

\* the steps of the cleanup task and of stop()
SWTaskNext ==
    \/ SWSleep /\ UNCHANGED SWRest
    \/ SWWake /\ UNCHANGED SWRest
    \/ SWDeleteResume /\ UNCHANGED SWRest
    \/ SWCancelled /\ UNCHANGED SWRest
    \/ SWStopReturn /\ UNCHANGED SWRest

SWNext ==
    \/ SWStart /\ UNCHANGED SWRest
    \/ SWTaskNext
    \/ SWStop /\ UNCHANGED SWRest
    \/ \E sid \in SWSids, ok \in SWOutcomes : SWCreate(sid, ok) /\ UNCHANGED SWRest
    \/ \E sid \in SWSids, ok \in SWOutcomes : SWGet(sid, ok) /\ UNCHANGED SWRest
    \/ \E sid \in SWSids, ok \in SWOutcomes : SWUpdate(sid, ok) /\ UNCHANGED SWRest
    \/ SWTick /\ UNCHANGED SWRest

InitSW == SWInit /\ RLQuiet /\ OAQuiet /\ SMQuiet /\ PXQuiet /\ ENQuiet /\ TSQuiet /\ MWQuiet /\ TKQuiet /\ RBQuiet /\ YCQuiet /\ OSQuiet /\ RQQuiet /\ STQuiet

SpecSW == InitSW /\ [][SWNext]_vars

\* the event loop resumes a task whose await is over: a sleep ends, a Redis
\* call answers or times out, a cancelled task is run
FairSW == SpecSW /\ WF_vars(SWTaskNext)

\* the rate limiter from the middle of a burst of one session
RBNext ==
    \/ \E t \in RLTasks : CheckRateLimit(t, BurstSession) /\ UNCHANGED RLRest
    \/ \E t \in RLTasks : BackoffRaise(t) /\ UNCHANGED RLRest
    \/ RLTick /\ UNCHANGED RLRest

InitRB == RBInit /\ OAQuiet /\ SMQuiet /\ PXQuiet /\ ENQuiet /\ TSQuiet /\ MWQuiet /\ TKQuiet /\ SWQuiet /\ YCQuiet /\ OSQuiet /\ RQQuiet /\ STQuiet

SpecRB == InitRB /\ [][RBNext]_vars

\* the components a client call leaves alone
YCOthers == <<oa_vars, sm_vars, px_vars, en_vars, ts_vars, mw_vars, tk_vars, sw_vars, rb_vars, os_vars, rq_vars, st_vars>>

YCNext ==
    \/ \E t \in RLTasks, s \in YCSessions : ClientCall(t, s) /\ UNCHANGED YCOthers
    \/ \E t \in RLTasks : ClientGate(t) /\ UNCHANGED YCOthers
    \/ \E t \in RLTasks : ClientBackoffRaise(t) /\ UNCHANGED YCOthers
    \/ \E t \in RLTasks : WaitBurstOver(t) /\ UNCHANGED YCOthers
    \/ \E t \in RLTasks : WaitMinuteOver(t) /\ UNCHANGED YCOthers
    \/ \E s \in YCSessions : ClearClientCache(s) /\ UNCHANGED YCOthers
    \/ YCTick /\ UNCHANGED YCOthers

InitYC == YCInit /\ RLInit /\ RBQuiet /\ OAQuiet /\ SMQuiet /\ PXQuiet /\ ENQuiet /\ TSQuiet /\ MWQuiet /\ TKQuiet /\ SWQuiet /\ OSQuiet /\ RQQuiet /\ STQuiet

SpecYC == InitYC /\ [][YCNext]_vars

OSNext ==
    \/ \E redirect \in OSRedirects : HandleAuthRequest(redirect) /\ UNCHANGED OSRest
    \/ \E code \in OSCodes, state \in OSRequestStates :
          HandleTokenExchange(code, state) /\ UNCHANGED OSRest

InitOS == OSInit /\ RLQuiet /\ OAQuiet /\ SMQuiet /\ PXQuiet /\ ENQuiet /\ TSQuiet /\ MWQuiet /\ TKQuiet /\ SWQuiet /\ RBQuiet /\ YCQuiet /\ RQQuiet /\ STQuiet

SpecOS == InitOS /\ [][OSNext]_vars

\* the components the limiter and its queries leave alone
RQOthers == <<oa_vars, sm_vars, px_vars, en_vars, ts_vars, mw_vars, tk_vars, sw_vars, rb_vars, yc_vars, os_vars, st_vars>>

RQNext ==
    \/ \E t \in RLTasks : CheckRateLimit(t, RQCaller) /\ UNCHANGED <<rq_vars, RQOthers>>
    \/ \E t \in RLTasks : BackoffRaise(t) /\ UNCHANGED <<rq_vars, RQOthers>>
    \/ RLTick /\ UNCHANGED <<rq_vars, RQOthers>>
    \/ \E s \in RLSessions : GetRateLimitStatus(s) /\ UNCHANGED RQOthers
    \/ GetStats /\ UNCHANGED RQOthers

InitRQ == RQInit /\ RLInit /\ RBQuiet /\ OAQuiet /\ SMQuiet /\ PXQuiet /\ ENQuiet /\ TSQuiet /\ MWQuiet /\ TKQuiet /\ SWQuiet /\ YCQuiet /\ OSQuiet /\ STQuiet

SpecRQ == InitRQ /\ [][RQNext]_vars

STNext ==
    \/ STStart /\ UNCHANGED STRest
    \/ STStop /\ UNCHANGED STRest
    \/ \E i \in STTasks : STRun(i) /\ UNCHANGED STRest
    \/ \E i \in STTasks : STCancelled(i) /\ UNCHANGED STRest
    \/ STStopReturn /\ UNCHANGED STRest

InitST == STInit /\ RLQuiet /\ OAQuiet /\ SMQuiet /\ PXQuiet /\ ENQuiet /\ TSQuiet /\ MWQuiet /\ TKQuiet /\ SWQuiet /\ RBQuiet /\ YCQuiet /\ OSQuiet /\ RQQuiet

SpecST == InitST /\ [][STNext]_vars

(***************************************************************************)
(*                     Properties of the rate limiter                      *)
(***************************************************************************)

\* the ends of the sliding windows worth looking at: a window holds the most
\* admitted calls when it ends at an admitted call, or now
WindowEnds(s) == {admitted[s][i] : i \in 1..Len(admitted[s])} \cup {rl_now}

\* C1: for every session and at every instant, the calls check_rate_limit
\* admitted in the trailing 10 s are at most burst_limit, in the trailing
\* 60 s at most requests_per_minute, in the trailing 3600 s at most
\* requests_per_hour, whatever the interleaving of the callers
C1_AdmissionBound ==
    \A s \in RLSessions : \A e \in WindowEnds(s) :
        /\ CountIn(admitted[s], e - BurstWindow, e) <= burst_limit
        /\ CountIn(admitted[s], e - MinuteWindow, e) <= requests_per_minute
        /\ CountIn(admitted[s], e - HourWindow, e) <= requests_per_hour

\* a session whose burst and minute windows are both full, while a caller
\* rejected for that session sleeps its backoff and another call is decided
C1_Witness ==
    \E s \in RLSessions :
        /\ CountIn(admitted[s], rl_now - BurstWindow, rl_now) = burst_limit
        /\ CountIn(admitted[s], rl_now - MinuteWindow, rl_now) = requests_per_minute
        /\ \E t \in RLTasks : rl_task[t].pc = "backoff" /\ rl_task[t].sess = s

\* C2: once burst_limit calls of a session were admitted inside the burst
\* window, the next call inside it is a burst rejection, which surfaces only
\* after the caller slept a non-zero backoff; a call made when the burst
\* window has elapsed (minute and hour windows with room) is admitted
C2_BurstRejectionRecovery ==
    /\ rl_last.outcome \in {"burst_sleeping", "minute", "hour", "admitted"} =>
          /\ rl_last.preB >= burst_limit =>
                rl_last.outcome = "burst_sleeping" /\ rl_last.backoff > 0
          /\ ( /\ rl_last.preB < burst_limit
               /\ rl_last.preM < requests_per_minute
               /\ rl_last.preH < requests_per_hour ) => rl_last.outcome = "admitted"
    /\ rl_last.outcome = "burst_raised" =>
          rl_last.backoff > 0 /\ rl_last.slept >= rl_last.backoff
    /\ \A t \in RLTasks : rl_task[t].pc = "backoff" => rl_task[t].wake > rl_task[t].call_time

\* a session is admitted again after its burst window elapsed: more than
\* burst_limit calls admitted in all, the latest one now, while the caller
\* that was rejected inside the window has not yet been resumed from its
\* backoff sleep
C2_Witness ==
    /\ rl_last.outcome = "admitted"
    /\ rl_last.preB < burst_limit
    /\ Len(admitted[rl_last.sess]) > burst_limit
    /\ \E t \in RLTasks : /\ rl_task[t].pc = "backoff"
                           /\ rl_task[t].sess = rl_last.sess
                           /\ rl_task[t].wake <= rl_now

\* the outcomes by which check_rate_limit decides a call
Decided == {"admitted", "minute", "hour", "burst_sleeping"}

\* how many timestamps equal to the present instant a deque of s holds
StampsNow(d, s) == CountIn(DequeOf(d, s), rl_now, rl_now)

\* the call that check_rate_limit decides in this step has put its timestamp
\* into the three windows / into none of them
RecordedInAll ==
    LET s == rl_last'.sess IN
    /\ StampsNow(burst_requests', s) = StampsNow(burst_requests, s) + 1
    /\ StampsNow(minute_requests', s) = StampsNow(minute_requests, s) + 1
    /\ StampsNow(hour_requests', s) = StampsNow(hour_requests, s) + 1
RecordedInNone ==
    LET s == rl_last'.sess IN
    /\ StampsNow(burst_requests', s) = StampsNow(burst_requests, s)
    /\ StampsNow(minute_requests', s) = StampsNow(minute_requests, s)
    /\ StampsNow(hour_requests', s) = StampsNow(hour_requests, s)

\* the violation counter of the decided call's session went down by one,
\* stopping at zero
DecayedByOne ==
    LET s == rl_last'.sess IN
    CountOf(violation_counts', s) =
        (IF CountOf(violation_counts, s) > 0 THEN CountOf(violation_counts, s) - 1 ELSE 0)

\* the call ran the periodic cleanup (more than 300 s after the last one)
\* and found no timestamp of its session left in the hour window
PurgedByCleanup ==
    LET s == rl_last'.sess IN
    /\ rl_now - last_cleanup > 300
    /\ CountIn(DequeOf(hour_requests, s), rl_now - 3600, rl_now) = 0
    /\ CountIn(DequeOf(minute_requests, s), rl_now - 60, rl_now) = 0
    /\ CountIn(DequeOf(burst_requests, s), rl_now - 10, rl_now) = 0

\* C27: check_rate_limit records the timestamp in the three windows exactly
\* when it admits the call, and an admitted call lowers the session's
\* violation counter by exactly one, not below zero
C27_RecordAndDecay ==
    [][rl_last'.outcome \in Decided =>
          /\ rl_last'.outcome = "admitted" => RecordedInAll /\ DecayedByOne
          /\ rl_last'.outcome # "admitted" => RecordedInNone]_vars

\* C27 as it holds: the counter of an admitted call goes down by one (not
\* below zero) unless the periodic cleanup run by the same call has purged
\* the session, which leaves it at zero
C27_RecordAndDecayOrPurge ==
    [][rl_last'.outcome \in Decided =>
          /\ rl_last'.outcome = "admitted" =>
                /\ RecordedInAll
                /\ IF PurgedByCleanup
                   THEN CountOf(violation_counts', rl_last'.sess) = 0
                   ELSE DecayedByOne
          /\ rl_last'.outcome # "admitted" => RecordedInNone]_vars

\* a call admitted by the call that also ran the cleanup, for a session with
\* nothing left in the hour window and no violation counter any more
C27_Witness ==
    /\ rl_last.outcome = "admitted"
    /\ rl_last.preH = 0
    /\ last_cleanup = rl_now /\ rl_now > 300
    /\ rl_last.sess \notin DOMAIN violation_counts

\* C28: a call that finds room in the burst window and the minute or the
\* hour window full is rejected at once, with no backoff sleep; a call that
\* finds the burst window full is a burst rejection whatever the other
\* windows hold
C28_MinuteHourImmediate ==
    rl_last.outcome \in Decided =>
        /\ (rl_last.preB < burst_limit /\ rl_last.preM >= requests_per_minute) =>
              rl_last.outcome = "minute" /\ rl_last.backoff = 0
        /\ ( /\ rl_last.preB < burst_limit
             /\ rl_last.preM < requests_per_minute
             /\ rl_last.preH >= requests_per_hour ) =>
              rl_last.outcome = "hour" /\ rl_last.backoff = 0
        /\ rl_last.outcome \in {"minute", "hour"} =>
              \A t \in RLTasks : ~( /\ rl_task[t].pc = "backoff"
                                      /\ rl_task[t].sess = rl_last.sess
                                      /\ rl_task[t].call_time = rl_now )
        /\ rl_last.preB >= burst_limit => rl_last.outcome = "burst_sleeping"

\* a call rejected for the hour window, with room in the other two
C28_Witness ==
    /\ rl_last.outcome = "hour"
    /\ rl_last.backoff = 0
    /\ rl_last.preB < burst_limit
    /\ rl_last.preM < requests_per_minute

\* C29: a burst rejection first raises the violation counter by one, to v,
\* and then sleeps min(60, 2^min(v, 6)) seconds: 2, 4, 8, 16, 32 or 60,
\* never less for a larger v
C29_BackoffDelay ==
    [][rl_last'.outcome = "burst_sleeping" =>
          LET s == rl_last'.sess
              v == CountOf(violation_counts', s)
              e == IF v < 6 THEN v ELSE 6
              d == IF 2^e < 60 THEN 2^e ELSE 60
          IN  /\ v = CountOf(violation_counts, s) + 1
              /\ rl_last'.backoff = d
              /\ d \in {2, 4, 8, 16, 32, 60}
              /\ \A t \in RLTasks :
                    (rl_task'[t] # rl_task[t]) => rl_task'[t].wake = rl_now + d
              /\ \A w \in 1..v : BackoffTime(w) <= d]_vars

\* the sixth violation in a row: the first delay cut to 60 s
C29_Witness ==
    /\ rl_last.outcome = "burst_sleeping"
    /\ CountOf(violation_counts, rl_last.sess) = 6
    /\ rl_last.backoff = 60
    /\ \E t \in RLTasks : rl_task[t].pc = "backoff" /\ rl_task[t].wake = rl_now + 60

\* s has an entry in one of the four dicts of the limiter
HasEntry(s, b, m, h, v) == s \in (DOMAIN b) \cup (DOMAIN m) \cup (DOMAIN h) \cup (DOMAIN v)

\* no call of s was admitted in the last 3600 s
Stale(s, adm, now) == CountIn(adm[s], now - HourWindow, now) = 0

\* the timestamps of q that are inside the hour window at time now
InHour(q, now) == SelectSeq(q, LAMBDA x : x >= now - HourWindow)

C10_RetriesNetworkFailure ==
    (oa_pc = "idle" /\ oa_nets > 0) =>
        (oa_posts = StopAfterAttempt \/ oa_nets < oa_posts)

\* C11: a refresh_token call answered with a status other than 200 ends with
\* an OAuthError after exactly one POST, and a call with a token that has no
\* refresh_token ends with an OAuthError after no POST
C11_RejectionNotRetried ==
    (oa_pc = "idle" /\ oa_token # NoToken) =>
        /\ oa_token.refresh_token = None
              => (oa_result.kind = "OAuthError" /\ oa_posts = 0)
        /\ (oa_resp.kind = "http" /\ oa_resp.status # 200)
              => (oa_result.kind = "OAuthError" /\ oa_posts = 1)

\* the last call was exchange_code_for_token / revoke_token and has ended
Exchanged == px_op = "exchange" /\ px_pc = "idle"
Revoked == px_op = "revoke" /\ px_pc = "idle"

\* the answer is a 200 whose JSON body holds access_token, token_type and expires_in
CompleteAnswer(r) ==
    /\ r.kind = "http" /\ r.status = 200 /\ r.json
    /\ r.body.access_token # None /\ r.body.token_type # None
    /\ r.body.expires_in # NoInt

\* C12: a call of exchange_code_for_token sends exactly one POST; it returns a
\* token exactly when the answer is a 200 holding access_token, token_type and
\* expires_in; a non-200 answer, an answer missing a required field and a
\* transport failure each end in an error without a token, and the error of
\* the transport failure differs from the error of the other two
C12_ExchangeOutcomes ==
    Exchanged =>
        /\ px_posts = 1
        /\ px_result.kind = "token" <=> CompleteAnswer(px_resp)
        /\ px_result.kind = "token" => px_result.token.access_token = px_resp.body.access_token
        /\ ~CompleteAnswer(px_resp) =>
              /\ px_result.kind = "OAuthError"
              /\ px_result.token = NoToken
              /\ px_result.msg = "network" <=> px_resp.kind = "net"

C12_Witness ==
    /\ Exchanged
    /\ px_resp.kind = "http" /\ px_resp.status = 200 /\ px_resp.json
    /\ px_resp.body.access_token # None /\ px_resp.body.token_type = None
    /\ px_result.kind = "OAuthError"

\* C13: every call of revoke_token ends by returning a boolean, whatever the
\* provider does, and the boolean is true only when the answer has status 200
C13_RevokeBestEffort ==
    Revoked =>
        /\ px_result.kind = "bool"
        /\ px_result.value => (px_resp.kind = "http" /\ px_resp.status = 200)

C13_Witness ==
    /\ Revoked
    /\ px_resp.kind = "net"
    /\ px_result = PXResult("bool", "", NoToken, FALSE)

\* the blobs the store calls can write, and a blob that is none of them:
\* no blob at all, or a damaged one
StoreOutputs == {Encrypt(x, iv) : x \in TSPayloads, iv \in IVs}
MissingOrCorrupt(blob) == blob \notin StoreOutputs

\* C14: a get_session / get_token call on a key that is missing, or whose
\* stored blob is not something a store call wrote, returns None in the local
\* and in the shared backend, and leaves both stores as they were
C14_GetMissingOrCorrupt ==
    [][ts_last'.op = "get" =>
          /\ ts_mem' = ts_mem /\ ts_red' = ts_red
          /\ MissingOrCorrupt(MemGet(ts_last'.kind, ts_last'.key))
                => ts_last'.mem = PyNone
          /\ MissingOrCorrupt(RedisGet(ts_last'.kind, ts_last'.key, ts_now))
                => ts_last'.red = PyNone]_vars

C14_Witness ==
    /\ ts_last.op = "get" /\ ts_last.up
    /\ MemGet(ts_last.kind, ts_last.key) \in CorruptBlobs \ {<<>>}
    /\ RedisGet(ts_last.kind, ts_last.key, ts_now) \in CorruptBlobs \ {<<>>}
    /\ ts_last.mem = PyNone /\ ts_last.red = PyNone

\* C15 as stated: every get returns the same in the local and in the shared
\* backend, whatever time has passed
C15_BackendsEquivalent ==
    ts_last.op = "get" => ts_last.mem = ts_last.red

\* the seconds a record of the shared backend lives after it is stored
\* (NoInt: for ever), and whether they have passed for a key
TimeToLive(kind, ttl) ==
    IF kind = "session" THEN RedisSessionTTL
    ELSE IF ttl # NoInt /\ ttl # 0 THEN ttl ELSE NoInt

Elapsed(kind, key) ==
    /\ key \in DOMAIN ts_stored[kind]
    /\ TimeToLive(kind, ts_stored[kind][key].ttl) # NoInt
    /\ ts_now >= ts_stored[kind][key].at + TimeToLive(kind, ts_stored[kind][key].ttl)

\* C15, amended: a get returns the same in both backends until the time to
\* live of the record has passed in the shared backend; from then on the
\* shared backend returns None and the local backend still returns the record
C15_EquivalentUntilExpiry ==
    ts_last.op = "get" =>
        IF Elapsed(ts_last.kind, ts_last.key)
        THEN ts_last.red = PyNone /\ ts_last.mem # PyNone
        ELSE ts_last.mem = ts_last.red

C15_Witness ==
    /\ ts_last.op = "get" /\ ts_last.kind = "token"
    /\ Elapsed(ts_last.kind, ts_last.key)
    /\ ts_last.red = PyNone /\ ts_last.mem \in TSPayloads \cup {JsonLoads(JsonDumps(x)) : x \in TSPayloads}

\* C16: every call of the shared backend made while the Redis server cannot
\* be reached ends with an error for the caller
C16_UnreachableSurfaced ==
    (ts_last.op # "none" /\ ~ts_last.up) => ts_last.red.t = "ConnectionError"

\* C17: decrypt returns x for the ciphertext encrypt(x) of every string and of
\* every JSON map x (parsed back with return_json), and raises EncryptionError
\* for every text that differs from an output of encrypt in one character
C17_RoundTripAndTamper ==
    en_out # NoValue =>
        /\ (en_t = en_c /\ en_x \in Strings \cup JsonMaps /\ en_flag = (en_x.t = "dict"))
              => en_out = en_x
        /\ en_t # en_c => en_out.t = "EncryptionError"

EncryptOutputs == {Encrypt(x, iv) : x \in Payloads, iv \in IVs}

\* C18: every blob held by the local or the shared backend, for a session or
\* a token, is a text that EncryptionManager.encrypt returned
C18_NoPlaintextAtRest ==
    \A kind \in TSKinds : \A key \in TSKeys :
        /\ key \in DOMAIN ts_mem[kind] => ts_mem[kind][key] \in EncryptOutputs
        /\ key \in DOMAIN ts_red[kind] => ts_red[kind][key].blob \in EncryptOutputs

C18_Witness ==
    \A kind \in TSKinds : \A key \in TSKeys :
        /\ key \in DOMAIN ts_mem[kind] /\ key \in DOMAIN ts_red[kind]
        /\ ts_mem[kind][key] = Encrypt(MapOf(PyDatetime(<<ChOne>>)), 7)

\* the request asked for a protected resource and was not let through on the
\* strength of a bearer token (the local bypass for testing set aside)
Unauthenticated ==
    /\ mw_req.handler # "none"
    /\ mw_req.path \notin PublicPaths
    /\ ~(mw_bypass /\ mw_req.host = "127.0.0.1")
    /\ \/ ~(mw_req.header.scheme \in {"Bearer", "bearer"} /\ mw_req.header.token # "")
       \/ ~mw_passed

\* C19: a request for a protected resource without a bearer token, or with
\* one that is not accepted, gets status 401, a WWW-Authenticate header
\* Bearer realm=..., error=invalid_token, a body naming the authorization
\* endpoint, and does not reach the downstream handler
C19_UnauthenticatedGets401 ==
    Unauthenticated =>
        /\ mw_resp.status = 401
        /\ mw_resp.scheme = "Bearer" /\ mw_resp.realm # "" /\ mw_resp.error = "invalid_token"
        /\ mw_resp.body_url = "/oauth/authorize"
        /\ ~mw_passed

\* C20: is_expired is false at every time before created_at + expires_in - 60
\* and true at that time and at every later one
C20_ExpiryBoundary ==
    tk_checked =>
        /\ tk_now < tk_token.created_at + tk_token.expires_in - 60 => ~tk_expired
        /\ tk_now >= tk_token.created_at + tk_token.expires_in - 60 => tk_expired

\* is_expired read one second before the boundary
C20_Witness ==
    /\ tk_checked
    /\ tk_now = tk_token.created_at + tk_token.expires_in - 61
    /\ ~tk_expired

\* C21: the token OAuthToken.refresh returns has the old refresh_count plus
\* one (so the count strictly increases along a chain of refreshes) and, when
\* the response has no refresh_token, the old refresh token
C21_RefreshCounts ==
    oa_result.kind = "token" =>
        /\ oa_result.token.refresh_count = oa_token.refresh_count + 1
        /\ oa_result.token.refresh_count > oa_token.refresh_count
        /\ oa_resp.body.refresh_token = None =>
               oa_result.token.refresh_token = oa_token.refresh_token

\* the second refresh of a chain, answered without a refresh_token
C21_Witness ==
    /\ oa_result.kind = "token"
    /\ oa_token.refresh_count = 1
    /\ oa_resp.body.refresh_token = None
    /\ oa_result.token.refresh_count = 2
    /\ oa_result.token.refresh_token = oa_token.refresh_token

(***************************************************************************)
(*                    Properties of the session manager                    *)
(***************************************************************************)

\* the sessions the cache holds, by id
CacheView == [k \in DOMAIN sm_cache |-> sm_obj[sm_cache[k]]]

\* the session object the call that has just returned handed to its caller
Returned == sm_obj[sm_last.obj]

InCache(sid) == sid \in DOMAIN sm_cache
InStorage(sid) == sid \in DOMAIN sm_store

\* C3: once authenticate_session(id, token) has returned the session it
\* stored, neither the cached nor the stored session of that id is PENDING or
\* without its token, whatever calls on the id run concurrently
C3_AuthorizedNeverPending ==
    \A sid \in sm_authd :
        /\ InCache(sid) =>
             /\ CacheView[sid].state = "authorized"
             /\ CacheView[sid].oauth_token # NoToken
        /\ InStorage(sid) =>
             /\ sm_store[sid].data.state = "authorized"
             /\ sm_store[sid].data.oauth_token # NoToken

\* C4: when an authenticate_session or update_session call returns that was
\* in flight while a delete_session of the same id removed the session and
\* returned, the session is in neither the cache nor storage
C4_DeletedNotRecreated ==
    (sm_last.op \in {"auth", "update"} /\ sm_last.raced)
        => (~InCache(sm_last.sid) /\ ~InStorage(sm_last.sid))

\* C5: when create_session returns, the session it returns is PENDING, has a
\* PKCE challenge and no token, and is in the cache and in storage under its id
C5_CreatedAndPersisted ==
    sm_last.op = "create" =>
        /\ Returned.state = "pending"
        /\ Returned.pkce_challenge # None
        /\ Returned.oauth_token = NoToken
        /\ InCache(sm_last.sid) /\ sm_cache[sm_last.sid] = sm_last.obj
        /\ InStorage(sm_last.sid) /\ sm_store[sm_last.sid].data = Returned

\* C6: authenticate_session on an id that is not in the cache when the call
\* starts and not in storage when the call reads it returns None, and no step
\* of the call changes the cached sessions or the stored sessions
C6_AuthenticateMissingNoEffect ==
    [][\A t \in SMTasks :
          /\ (sm_task[t].pc = "idle" /\ sm_task'[t].op = "auth" /\ sm_task'[t].pc = "load")
                => (CacheView' = CacheView /\ sm_store' = sm_store)
          /\ (sm_task[t].op = "auth" /\ sm_task[t].pc = "load"
              /\ ~InStorage(sm_task[t].sid) /\ sm_task'[t].pc # "load")
                => /\ sm_task'[t] = Idle
                   /\ sm_last'.task = t /\ sm_last'.ret = "None"
                   /\ CacheView' = CacheView /\ sm_store' = sm_store]_vars

\* authenticate_session has just returned not-found for an id that was in
\* neither place, while another session is cached and stored
C6_Witness ==
    /\ sm_last.op = "auth" /\ sm_last.ret = "None" /\ sm_last.absent
    /\ sm_last.path = "missing"
    /\ \E other \in Sids \ {sm_last.sid} : InCache(other) /\ InStorage(other)

\* C7 as stated: the session authenticate_session returns after a successful
\* exchange is AUTHORIZED and is_authenticated, for every token of the exchange
C7_AuthorizedIsAuthenticated ==
    (sm_last.op = "auth" /\ sm_last.ret = "session")
        => (Returned.state = "authorized" /\ IsAuthenticated(Returned, sm_now))

\* C7, amended: the session authenticate_session returns after a successful
\* exchange is AUTHORIZED and carries a token, and is_authenticated holds
\* exactly when that token is more than 60 s from its expiry
C7_AuthorizedTokenAttached ==
    (sm_last.op = "auth" /\ sm_last.ret = "session")
        => /\ Returned.state = "authorized"
           /\ Returned.oauth_token # NoToken
           /\ IsAuthenticated(Returned, sm_now)
                <=> (sm_now + TokenBuffer
                        < Returned.oauth_token.created_at + Returned.oauth_token.expires_in)

\* authenticate_session has just returned a session that is_authenticated,
\* with the token the exchange gave
C7_Witness ==
    /\ sm_last.op = "auth" /\ sm_last.ret = "session"
    /\ Returned.oauth_token = sm_last.tok
    /\ IsAuthenticated(Returned, sm_now)

\* C8: a delete_session of an id that an earlier delete_session has removed
\* (so that it is in neither the cache nor storage) returns False
C8_SecondDeleteFalse ==
    (sm_last.op = "delete" /\ sm_last.absent /\ sm_last.sid \in sm_deleted)
        => sm_last.ret = "False"

\* C9: when get_session returns a session, the session is not expired, its
\* last_accessed is now and storage holds it with that last_accessed; when it
\* finds the session expired, the id is in neither the cache nor storage
C9_GetSessionFreshOrGone ==
    sm_last.op = "get" =>
        /\ sm_last.ret = "session" =>
             /\ ~IsExpired(Returned, sm_now)
             /\ Returned.last_accessed = sm_now
             /\ InStorage(sm_last.sid)
             /\ sm_store[sm_last.sid].data.last_accessed = sm_now
        /\ sm_last.path = "expired" =>
             /\ sm_last.ret = "None"
             /\ ~InCache(sm_last.sid) /\ ~InStorage(sm_last.sid)

\* the rate limiter has taken the decision of the check_rate_limit call that
\* has just returned: an allowed request is the last one it recorded for the id
DelegatedToLimiter ==
    sm_last.ret = "True" =>
        /\ sm_last.sid \in DOMAIN burst_requests
        /\ burst_requests[sm_last.sid] # <<>>
        /\ burst_requests[sm_last.sid][Len(burst_requests[sm_last.sid])] = sm_now

\* the request counter of the session the call found is the stored one
CounterPersisted ==
    sm_last.sid \in DOMAIN sm_cache =>
        /\ sm_last.sid \in DOMAIN sm_store
        /\ sm_store[sm_last.sid].data.request_count
               = sm_obj[sm_cache[sm_last.sid]].request_count

\* C22: check_rate_limit takes its verdict from the rate limiter under the
\* session id, and on allow and on deny alike the session's request counter
\* is the one in token storage when the call returns
C22_DelegatesAndPersists ==
    sm_last.op = "crl" => DelegatedToLimiter /\ CounterPersisted

\* C32: a session carries its PKCE challenge only while it is PENDING: no
\* cached and no stored session that is not PENDING (so none that
\* authenticate_session has made AUTHORIZED) has a PKCE challenge
C32_PkceOnlyWhilePending ==
    \A sid \in Sids :
        /\ InCache(sid) =>
             (CacheView[sid].pkce_challenge # None => CacheView[sid].state = "pending")
        /\ InStorage(sid) =>
             (sm_store[sid].data.pkce_challenge # None
                 => sm_store[sid].data.state = "pending")

\* the step in which check_rate_limit, back from get_session with a
\* session, takes its verdict (lines 234-245)
Verdict(t) ==
    /\ sm_task[t].op = "crl" /\ sm_task[t].ctx = "get" /\ sm_task[t].pc = "store"
    /\ sm_task'[t] # sm_task[t]

\* C37 as stated: a check_rate_limit call on a session that was created and
\* not deleted returns False only when the counter has reached the limit
C37_FalseOnlyAtLimit ==
    (sm_last.op = "crl" /\ sm_last.ret = "False"
     /\ sm_last.sid \in sm_used \ sm_deleted /\ sm_restarts = 0)
        => sm_last.path = "limited"

\* C37: for the limit max_requests, no session object and no stored session
\* has a request_count above the limit; a check_rate_limit call that finds
\* the session returns False exactly when the session's request_count has
\* reached the limit and the reset time is still ahead; and a call at or
\* after rate_limit_reset restarts the counter: it leaves request_count = 1
\* and the reset time one minute ahead
C37_CounterBound ==
    /\ [](\A m \in SMMaxRequests :
            /\ \A o \in ObjIds : sm_obj[o].request_count <= m
            /\ \A sid \in DOMAIN sm_store : sm_store[sid].data.request_count <= m)
    /\ [][\A t \in SMTasks : Verdict(t) =>
            LET s == sm_obj[sm_task[t].obj]
                o == sm_task[t].obj
            IN  /\ (sm_last'.task = t /\ sm_last'.ret = "False")
                      <=> (sm_now < s.rate_limit_reset
                           /\ s.request_count >= sm_task[t].maxreq)
                /\ sm_now >= s.rate_limit_reset =>
                      /\ sm_obj'[o].request_count = 1
                      /\ sm_obj'[o].rate_limit_reset = sm_now + RateWindow
                /\ (sm_now < s.rate_limit_reset /\ s.request_count < sm_task[t].maxreq) =>
                      sm_obj'[o].request_count = s.request_count + 1]_vars

\* check_rate_limit has just refused a request of a session whose counter
\* is at the limit
C37_Witness ==
    /\ sm_last.op = "crl" /\ sm_last.ret = "False" /\ sm_last.path = "limited"
    /\ sm_last.sid \in DOMAIN sm_cache
    /\ \E m \in SMMaxRequests : CacheView[sm_last.sid].request_count = m
    /\ sm_now < CacheView[sm_last.sid].rate_limit_reset

\* the stored session of sid agrees with the cached one
Agrees(sid) ==
    /\ InStorage(sid)
    /\ sm_store[sid].data.state = CacheView[sid].state
    /\ (sm_store[sid].data.oauth_token = NoToken) <=> (CacheView[sid].oauth_token = NoToken)
    /\ sm_store[sid].data.last_accessed = CacheView[sid].last_accessed
    /\ sm_store[sid].data.request_count = CacheView[sid].request_count

\* C38: when a SessionManager operation has completed and no other is in
\* flight, every session in the cache is in token storage with the same
\* state, token presence, last_accessed and request_count, also after a
\* storage write or delete that failed
C38_CacheStorageAgree ==
    (sm_last.op # "none" /\ Quiescent) => \A sid \in DOMAIN sm_cache : Agrees(sid)

(***************************************************************************)
(*                     Properties of the expiry sweep                      *)
(***************************************************************************)

\* a pass has come to its end: the task is back at a sleep
PassOver == sw_pc \in {"sleep", "cooldown"}

\* C23: a pass that ends has called delete_session for every expired
\* session it listed, whichever of the deletes failed; the task ends only
\* after a cancellation; and after an error in a pass the loop goes on to
\* its next sleep unless it is cancelled
C23_SweepSurvivesErrors ==
    /\ [](PassOver => sw_pass.attempted = sw_pass.listed)
    /\ [](sw_pc = "done" => sw_stop # "none")
    /\ (sw_pc = "cooldown") ~> (sw_pc = "sleep" \/ sw_stop # "none")

\* a pass over two expired sessions whose deletes both failed
C23_Witness ==
    /\ sw_pc = "sleep"
    /\ Cardinality(sw_pass.listed) = 2
    /\ sw_pass.failed = sw_pass.listed
    /\ sw_pass.attempted = sw_pass.listed

\* C24: stop() returns, wherever the cancellation finds the task; once it
\* has returned the task is finished and the sweep deletes nothing more
C24_CleanShutdown ==
    /\ (sw_stop = "awaiting") ~> (sw_stop = "returned")
    /\ [](sw_stop = "returned" => sw_pc \in {"none", "done"})
    /\ [][sw_stop = "returned" => sw_pass' = sw_pass]_vars

\* stop() has returned after a cancellation that arrived between two deletes
C24_Witness ==
    /\ sw_stop = "returned"
    /\ sw_pc = "done"
    /\ sw_pass.attempted # sw_pass.listed

\* the sweep task exists, has not ended and has not been cancelled
SweepRunning == sw_pc \notin {"none", "done"} /\ sw_stop = "none"

\* C25: while the sweep runs, a cached session that is expired is in the end
\* in neither the cache nor the storage, unless it is accessed again
C25_ExpiredEventuallyRemoved ==
    \A sid \in SWSids :
        (SweepRunning /\ sid \in DOMAIN sw_cache /\ IsExpired(sw_cache[sid], sw_now))
        ~> \/ sid \notin DOMAIN sw_cache /\ sid \notin DOMAIN sw_store
           \/ sid \in DOMAIN sw_cache /\ ~IsExpired(sw_cache[sid], sw_now)
           \/ ~SweepRunning

\* the sweep has removed the expired sessions of a pass from cache and storage
C25_Witness ==
    /\ sw_pc = "sleep"
    /\ sw_backend = "memory"
    /\ sw_pass.listed # {}
    /\ \A sid \in sw_pass.listed : sid \notin DOMAIN sw_cache /\ sid \notin DOMAIN sw_store

\* C33: the session the cleanup sweep removes as expired leaves the sweep
\* with the state EXPIRED
C33_SweepMarksExpired ==
    \A sid \in DOMAIN sw_swept : sw_swept[sid].session.state = "expired"

\* C34: every session the sweep deletes is expired at the moment the sweep
\* deletes it, so a session whose last_accessed a request refreshed after
\* the sweep listed it is not deleted
C34_SweepDeletesOnlyExpired ==
    \A sid \in DOMAIN sw_swept : IsExpired(sw_swept[sid].session, sw_swept[sid].at)

\* C40: whatever start() and stop() calls were made, once the last stop()
\* has returned (and no start() has followed it) no cleanup task is running
C40_NoTaskAfterStop ==
    st_stop = "returned" => \A i \in STTasks : st_task[i] \in {"none", "done"}

(***************************************************************************)
(*                 Properties of the client's rate-limit gate              *)
(***************************************************************************)

\* the external API calls made for s in the window of the given length that
\* ends at instant e
CallsInWindow(s, e, window) ==
    Cardinality({i \in 1..Len(yc_calls[s]) : yc_calls[s][i] > e - window /\ yc_calls[s][i] <= e})

\* C26: the external API calls YTMusicClient makes for a session stay, in
\* every burst, minute and hour window, within the configured limit of that
\* window, because each of them passes the rate-limit gate first
C26_ExternalCallsWithinLimits ==
    \A s \in YCSessions : \A i \in 1..Len(yc_calls[s]) :
        LET e == yc_calls[s][i] IN
        /\ CallsInWindow(s, e, BurstWindow) <= burst_limit
        /\ CallsInWindow(s, e, MinuteWindow) <= requests_per_minute
        /\ CallsInWindow(s, e, HourWindow) <= requests_per_hour

\* C30: wait_if_needed has suspended its caller for exactly the time until
\* the oldest timestamp of the window that was at its limit falls out of the
\* window: for the longer of the two times when both windows were at their
\* limit, and for no time when neither was
C30_WaitsExactlyUntilRoom ==
    yc_wait.sess # None => yc_wait.slept = Max2(yc_wait.needB, yc_wait.needM)

\* C36: a check_rate_limit for the session wait_if_needed has returned for,
\* made at the instant of that return and before any other request of the
\* session is recorded, is not rejected by the burst window or by the
\* minute window
C36_CheckAfterWaitPasses ==
    [][(/\ violation_counts' # violation_counts
        /\ yc_wait.sess = rl_last'.sess
        /\ yc_wait.at = rl_now
        /\ yc_wait.seen = Len(admitted[yc_wait.sess]))
          => rl_last'.outcome \notin {"burst_sleeping", "minute"}]_vars

(***************************************************************************)
(*                     Properties of the OAuth server                      *)
(***************************************************************************)

\* the states handle_auth_request has issued so far
IssuedStates == {OSStates[i] : i \in 1..os_issued}

\* C35: the token handler gives a token only for a state the authorization
\* handler has issued, and only once for it: a token request with a state
\* for which a token was given before is rejected
C35_StateSingleUse ==
    os_last.result = "token" =>
        (os_last.state \in IssuedStates /\ os_last.before = 0)

(***************************************************************************)
(*                 Properties of the rate limiter's queries                *)
(***************************************************************************)

\* C39: get_rate_limit_status and get_stats leave the burst, minute and
\* hour dicts and the violation counters as they are, so that a query for a
\* session that made no request creates no entry and the active_sessions
\* that get_stats reports stays the same
C39_QueriesReadOnly ==
    [][(rq_last' # rq_last) =>
          /\ UNCHANGED <<burst_requests, minute_requests, hour_requests, violation_counts>>
          /\ Cardinality(DOMAIN minute_requests') = Cardinality(DOMAIN minute_requests)]_vars

====
